---- MODULE Spec2Model ----
(***************************************************************************)
(* A model of the Kindle -> Anki vocabulary CLI (src/vocab-cli.ts, the     *)
(* first program of the file, lines 1-659): the `ingest` command, which    *)
(* turns raw looked-up words into the cleaned-words artifact, and the      *)
(* `export` command, which writes the next deck batch of a tier.           *)
(*                                                                         *)
(* Strings are sequences of atoms.  An atom is a one-character string, or  *)
(* an opaque token that contains no space, tab, newline or underscore.     *)
(* Real numbers (Zipf scores) are kept as integers scaled by ten.          *)
(***************************************************************************)
EXTENDS Integers, Sequences, FiniteSets, TLC

(* ------------------------------------------------------------------ *)
(* String primitives of the JavaScript runtime, as the code uses them  *)
(* ------------------------------------------------------------------ *)

Whitespace == {" ", "\t", "\n"}

toLowerChar(c) ==
  CASE c = "C" -> "c"
    [] c = "P" -> "p"
    [] c = "T" -> "t"
    [] OTHER -> c

toLowerCase(s) == [i \in 1..Len(s) |-> toLowerChar(s[i])]

RECURSIVE trimStart(_)
trimStart(s) ==
  IF Len(s) > 0 /\ s[1] \in Whitespace THEN trimStart(Tail(s)) ELSE s

RECURSIVE trimEnd(_)
trimEnd(s) ==
  IF Len(s) > 0 /\ s[Len(s)] \in Whitespace
  THEN trimEnd(SubSeq(s, 1, Len(s) - 1))
  ELSE s

trim(s) == trimEnd(trimStart(s))

RECURSIVE split(_, _)
split(s, sep) ==
  IF \E i \in 1..Len(s) : s[i] = sep
  THEN LET i == CHOOSE k \in 1..Len(s) :
                  s[k] = sep /\ \A j \in 1..(k - 1) : s[j] # sep
       IN  <<SubSeq(s, 1, i - 1)>> \o split(SubSeq(s, i + 1, Len(s)), sep)
  ELSE <<s>>

RECURSIVE join(_, _)
join(parts, sep) ==
  IF Len(parts) = 0 THEN <<>>
  ELSE IF Len(parts) = 1 THEN parts[1]
  ELSE parts[1] \o sep \o join(Tail(parts), sep)

endsWith(s, suffix) ==
  /\ Len(s) >= Len(suffix)
  /\ SubSeq(s, Len(s) - Len(suffix) + 1, Len(s)) = suffix

dropLast(s, n) == SubSeq(s, 1, Len(s) - n)

Range(f) == {f[i] : i \in DOMAIN f}

(* Array.prototype.filter, by a set of kept positions. *)
RECURSIVE filterSeq(_, _)
filterSeq(s, keep) ==
  IF Len(s) = 0 THEN <<>>
  ELSE LET rest == filterSeq(Tail(s), {i - 1 : i \in keep \ {1}})
       IN  IF 1 \in keep THEN <<Head(s)>> \o rest ELSE rest

(* ------------------------------------------------------------------ *)
(* Words of the fixture                                                *)
(* ------------------------------------------------------------------ *)

w_cat  == <<"c", "a", "t">>
w_cats == <<"c", "a", "t", "s">>
w_Cat  == <<"C", "a", "t">>
w_hen  == <<"h", "e", "n">>
w_hens == <<"h", "e", "n", "s">>
w_owl  == <<"o", "w", "l">>
w_owls == <<"o", "w", "l", "s">>
w_Pig  == <<"P", "i", "g">>
w_pig  == <<"p", "i", "g">>
w_pigs == <<"p", "i", "g", "s">>
w_sun  == <<"s", "u", "n">>
w_dog  == <<"d", "o", "g">>
w_dogs == <<"d", "o", "g", "s">>
w_the  == <<"t", "h", "e">>
w_thes == <<"t", "h", "e", "s">>
w_blank == <<" ", " ">>

(* ------------------------------------------------------------------ *)
(* Reference data: the files under data/ and their loaders             *)
(* ------------------------------------------------------------------ *)

(* data/stop_en.txt and data/known.txt, as their lines. *)
STOP_TXT == << <<"T", "h", "e">>, <<" ", "a", "n", " ">>, <<>>, w_owls >>
KNOWN_TXT == << w_dog >>

(* A file of the data directory: whether it is there, whether its text
   parses as JSON, and its content. *)
dataFile(exists, parses, data) ==
  [exists |-> exists, parses |-> parses, data |-> data]

(* The set of a list file's lines, empty when the file is missing. *)
readLines(file) ==
  IF ~file.exists THEN {}
  ELSE {toLowerCase(trim(file.data[i])) : i \in DOMAIN file.data} \ {<<>>}

(* data/cefr_map.json: word -> {level, pos}. *)
CEFR_JSON ==
  (w_cat :> [level |-> "A1", pos |-> "noun"]) @@
  (w_sun :> [level |-> "A1", pos |-> "verb"]) @@
  (w_owl :> [level |-> "C1", pos |-> ""])

(* Zipf scores of the fixture are non-negative, so two negative integers
   stand for the two values of a score that are no finite number: NaN in
   memory, and the null that JSON.stringify writes for it. *)
NaN == 0 - 1
JsonNull == 0 - 2

(* The maps are plain objects (JSON.parse, {}), so map[key] also finds
   what Object.prototype has under the key.  Of its property names one
   is a lowercase word: 'constructor', whose value is a function.  A
   third negative integer stands for that value. *)
w_constructor == <<"c", "o", "n", "s", "t", "r", "u", "c", "t", "o", "r">>
InheritedKeys == {w_constructor}
AFunction == 0 - 3

(* fs.pathExists(CEFR_JSON) ? readJSON(CEFR_JSON) : {}, where readJSON
   gives null for a text that does not parse ({ throws: false }). *)
cefrMapOf(file) ==
  IF ~file.exists THEN <<>>
  ELSE IF ~file.parses THEN JsonNull
  ELSE file.data

(* The reference files in place, as the fixture has them. *)
soundReference ==
  [stop |-> dataFile(TRUE, FALSE, STOP_TXT),
   known |-> dataFile(TRUE, FALSE, KNOWN_TXT),
   cefr |-> dataFile(TRUE, TRUE, CEFR_JSON)]

(* data/subtlex_zipf.json: word -> Zipf score (times ten). *)
ZIPF_JSON ==
  (w_cat :> 45) @@ (w_sun :> 60) @@ (w_owl :> 30) @@ (w_cats :> 42)

(* A cell of data/SUBTLEX-US.xlsx as sheet_to_json gives it: a number
   (Zipf columns in tenths, Lg10WF in thousandths) or a text. *)
numCell(v) == <<[t |-> "n", v |-> v]>>
textCell(v) == <<[t |-> "s", v |-> v]>>

sheetRow(word, zipfCell, zipfValueCell, lgCell) ==
  [Word |-> word, Zipf |-> zipfCell, ZipfValue |-> zipfValueCell,
   Lg10WF |-> lgCell]

(* A sheet that gives the scores of ZIPF_JSON, and the same sheet with a
   row whose only score is a text in the Lg10WF column. *)
SUBTLEX_CLEAN == <<
  sheetRow(<<w_Cat>>, numCell(45), <<>>, <<>>),
  sheetRow(<<w_sun>>, <<>>, numCell(60), <<>>),
  sheetRow(<<w_owl>>, <<>>, <<>>, numCell(4707)),
  sheetRow(<<w_cats>>, numCell(42), <<>>, numCell(9707)),
  sheetRow(<<>>, numCell(10), <<>>, <<>>),
  sheetRow(<<w_pig>>, textCell(<<"4", ".", "5">>), <<>>, <<>>),
  sheetRow(<<w_dog>>, <<>>, <<>>, numCell(0)) >>

SUBTLEX_TEXT ==
  Append(SUBTLEX_CLEAN,
         sheetRow(<<w_hens>>, <<>>, <<>>, textCell(<<"n", "/", "a">>)))

Lg10Offset == 1707

(* r.Lg10WF - 1.707, in tenths: a text that is no numeral gives NaN. *)
lgToZipf(cell) ==
  IF cell.t = "n" THEN numCell((cell.v - Lg10Offset) \div 100)[1]
  ELSE [t |-> "n", v |-> NaN]

(* Truthiness of a cell: a number other than 0, a text other than ''. *)
truthyCell(c) ==
  c # <<>> /\ (IF c[1].t = "n" THEN c[1].v # 0 ELSE Len(c[1].v) > 0)

(* let z = r.Zipf ?? r['Zipf-value'];
   if (z === undefined && r.Lg10WF) z = r.Lg10WF - 1.707;   (an option) *)
rowScoreFrom(first, lgCell) ==
  IF first # <<>> THEN first
  ELSE IF truthyCell(lgCell) THEN <<lgToZipf(lgCell[1])>> ELSE <<>>

rowScore(r) ==
  rowScoreFrom(IF r.Zipf # <<>> THEN r.Zipf ELSE r.ZipfValue, r.Lg10WF)

(* r.Word?.toLowerCase() *)
rowWord(r) == IF r.Word = <<>> THEN <<>> ELSE <<toLowerCase(r.Word[1])>>

(* if (w && typeof z === 'number') map[w] = z; *)
rowCounts(w, z) == w # <<>> /\ Len(w[1]) > 0 /\ z # <<>> /\ z[1].t = "n"

countedRows(rows) == {i \in DOMAIN rows : rowCounts(rowWord(rows[i]), rowScore(rows[i]))}

lastRowOf(rows, counted, w) ==
  CHOOSE i \in counted :
    /\ rowWord(rows[i])[1] = w
    /\ \A j \in counted : rowWord(rows[j])[1] = w => j <= i

(* rows.forEach(...): a later row of a word replaces an earlier one. *)
zipfMapOfRows(rows, counted) ==
  [w \in {rowWord(rows[i])[1] : i \in counted} |->
     rowScore(rows[lastRowOf(rows, counted, w)])[1].v]

(* JSON.stringify of a map of numbers, read back by JSON.parse: NaN is
   written as null. *)
(* JSON.stringify writes null for NaN and leaves a function-valued
   property out; a reader of the file finds no number either way. *)
jsonNumber(v) == IF v \in {NaN, AFunction} THEN JsonNull ELSE v
jsonOfMap(map) == [w \in DOMAIN map |-> jsonNumber(map[w])]

builtZipfMap(map) == [map |-> map, file |-> [exists |-> TRUE, data |-> jsonOfMap(map)]]

(* The map a run works with and the cache file it leaves (lines 177-208):
   the cached object when it has a key, {} without the spreadsheet, else
   the map built from the sheet, which is then cached. *)
ensureZipfMap(cache, sheet) ==
  IF cache.exists /\ DOMAIN cache.data # {}
  THEN [map |-> cache.data, file |-> cache]
  ELSE IF ~sheet.exists THEN [map |-> <<>>, file |-> cache]
  ELSE builtZipfMap(zipfMapOfRows(sheet.data, countedRows(sheet.data)))

(* obj[key] of a JSON object: the value, or undefined (the empty option). *)
lookupKey(map, key) == IF key \in DOMAIN map THEN <<map[key]>> ELSE <<>>

(* Truthiness of cefr[v] (an object or undefined) and zipf[v] (a number,
   null or undefined; the number 0, NaN and null are falsy). *)
truthyCefr(cefr, v) == v \in DOMAIN cefr \/ v \in InheritedKeys
truthyZipf(zipf, v) ==
  IF v \in DOMAIN zipf THEN zipf[v] \notin {0, NaN, JsonNull}
  ELSE v \in InheritedKeys

(* ------------------------------------------------------------------ *)
(* wink-lemmatizer (an external library): suffix reductions            *)
(* ------------------------------------------------------------------ *)

lemmatizerNoun(w) ==
  IF Len(w) > 2 /\ endsWith(w, <<"s">>) THEN dropLast(w, 1) ELSE w

lemmatizerVerb(w) ==
  IF Len(w) > 3 /\ endsWith(w, <<"e", "d">>) THEN dropLast(w, 2)
  ELSE IF Len(w) > 4 /\ endsWith(w, <<"i", "n", "g">>) THEN dropLast(w, 3)
  ELSE w

lemmatizerAdjective(w) ==
  IF Len(w) > 3 /\ endsWith(w, <<"e", "r">>) THEN dropLast(w, 2) ELSE w

(* ------------------------------------------------------------------ *)
(* Lemma chooser                                                       *)
(* ------------------------------------------------------------------ *)

(* [noun, verb, adjective, w].filter((v) => v && v !== w) *)
lemmaCandidates(w) ==
  <<lemmatizerNoun(w), lemmatizerVerb(w), lemmatizerAdjective(w), w>>

(* The filter without its test for an empty reduction. *)
lemmaVariantsUnfiltered(all, w) ==
  filterSeq(all, {i \in DOMAIN all : all[i] # w})

lemmaVariants(all, w) ==
  filterSeq(all, {i \in DOMAIN all : all[i] # <<>> /\ all[i] # w})

(* for (const v of variants) if (cefr[v] || zipf[v]) return v;
   return variants[0] ?? w; *)
firstKnownVariant(variants, hits, w) ==
  IF hits # {}
  THEN variants[CHOOSE i \in hits : \A j \in hits : i <= j]
  ELSE IF Len(variants) > 0 THEN variants[1] ELSE w

chooseAmong(variants, cefr, zipf, w) ==
  firstKnownVariant(
    variants,
    {i \in DOMAIN variants :
       truthyCefr(cefr, variants[i]) \/ truthyZipf(zipf, variants[i])},
    w)

(* chooseLemma once the lemmatizer has answered. *)
chooseFrom(all, w, cefr, zipf) ==
  chooseAmong(lemmaVariants(all, w), cefr, zipf, w)

chooseLemma(w, cefr, zipf) == chooseFrom(lemmaCandidates(w), w, cefr, zipf)

(* ------------------------------------------------------------------ *)
(* Tier logic                                                          *)
(* ------------------------------------------------------------------ *)

Levels == {"A1", "A2", "B1", "B2", "C1", "C2"}

levelRank ==
  ("A1" :> 0) @@ ("A2" :> 1) @@ ("B1" :> 2) @@
  ("B2" :> 3) @@ ("C1" :> 4) @@ ("C2" :> 5)

(* Thresholds of decideTier; Zipf scores are scaled by ten. *)
TierOneZipf == 40
TierTwoZipf == 50
TierOneCount == 5
DefaultZipf == 35

(* e.count ?? 0: the count is an option, <<>> when the field is absent. *)
countOf(e) == IF e.count = <<>> THEN 0 ELSE e.count[1]

(* zipf < limit: false for NaN and for a function (which compares as
   NaN), and null counts as 0. *)
below(zipf, limit) ==
  /\ zipf \notin {NaN, AFunction}
  /\ (IF zipf = JsonNull THEN 0 ELSE zipf) < limit

(* decideTier with the lookup count compared strictly (count > 5). *)
decideTierStrictCount(level, zipf, count) ==
  LET cnt == IF count = <<>> THEN 0 ELSE count[1]
  IN  IF \/ (level \in DOMAIN levelRank
             /\ levelRank[level] >= levelRank["B2"]
             /\ below(zipf, TierOneZipf))
         \/ cnt > TierOneCount
      THEN 1
      ELSE IF below(zipf, TierTwoZipf) THEN 2 ELSE 3

(* levelRank[level] >= levelRank.B2 is false for a level that is no key
   (undefined >= 3). *)
decideTier(level, zipf, count) ==
  LET cnt == IF count = <<>> THEN 0 ELSE count[1]
  IN  IF \/ (level \in DOMAIN levelRank
             /\ levelRank[level] >= levelRank["B2"]
             /\ below(zipf, TierOneZipf))
         \/ cnt >= TierOneCount
      THEN 1
      ELSE IF below(zipf, TierTwoZipf) THEN 2 ELSE 3

(* ------------------------------------------------------------------ *)
(* WordNet (natural + wordnet-db, external): the senses of a lemma     *)
(* ------------------------------------------------------------------ *)

(* The switch is on wnPosTag?.toLowerCase(). *)
mapWordNetPosToStandard(wnPosTag) ==
  CASE wnPosTag \in {"n", "N"} -> "noun"
    [] wnPosTag \in {"v", "V"} -> "verb"
    [] wnPosTag \in {"a", "A"} -> "adjective"
    [] wnPosTag \in {"s", "S"} -> "adjective"
    [] wnPosTag \in {"r", "R"} -> "adverb"
    [] OTHER -> ""

(* The lexical database: lemma -> senses.  freqCnt is an option; lacks
   names the fields of WNResult a sense comes without. *)
WordNetDb ==
  (w_cat :> <<
     [pos |-> "n", def |-> <<"feline", ";", " ", "furry">>,
      synonyms |-> << w_cat, <<"t", "r", "u", "e", "_", "c", "a", "t">> >>,
      freqCnt |-> <<5>>, lacks |-> {}],
     [pos |-> "v", def |-> <<"whip">>,
      synonyms |-> << w_cat, <<"f", "l", "o", "g">> >>,
      freqCnt |-> <<>>, lacks |-> {}] >>) @@
  (w_hen :> <<
     [pos |-> "n", def |-> <<"fowl">>,
      synonyms |-> << w_hen, <<"b", "i", "d", "d", "y">> >>,
      freqCnt |-> <<2>>, lacks |-> {}] >>) @@
  (w_pig :> <<
     [pos |-> "s", def |-> <<"greedy">>,
      synonyms |-> << <<"P", "i", "g">> >>,
      freqCnt |-> <<1>>, lacks |-> {}],
     [pos |-> "n", def |-> <<"swine", " ", ";", "hog">>,
      synonyms |-> << <<"h", "o", "g">>, <<"h", "o", "g">> >>,
      freqCnt |-> <<>>, lacks |-> {}] >>) @@
  (w_sun :> <<
     [pos |-> "n", def |-> <<"star">>,
      synonyms |-> << w_sun, <<"S", "o", "l">>, <<"s", "t", "a", "r">>,
                      <<"d", "a", "y">>, <<"o", "r", "b">> >>,
      freqCnt |-> <<9>>, lacks |-> {}] >>)

(* What a lookup of a lemma ends in: the senses it resolves with, or a
   rejection when wn.lookup throws. *)
answerOf(senses) == [throws |-> FALSE, senses |-> senses]
LookupThrows == [throws |-> TRUE, senses |-> <<>>]

(* Every lookup answers from the database. *)
soundLookups == [l \in DOMAIN WordNetDb |-> answerOf(WordNetDb[l])]

(* wn.lookup(lemma, cb) with resolve(results ?? []). *)
lookupAsync(wn, lemma) ==
  IF lemma \in DOMAIN wn THEN wn[lemma] ELSE answerOf(<<>>)

(* ------------------------------------------------------------------ *)
(* posFromExample: compromise (an external tagger) on the example      *)
(* ------------------------------------------------------------------ *)

(* The tags compromise gives a term of the fixture's examples. *)
nlpTags(term) ==
  CASE term = w_hens -> {"Noun"}
    [] term = w_cat -> {"Verb"}
    [] OTHER -> {}

pluralFormOf(lemma) ==
  IF endsWith(lemma, <<"s">>) THEN lemma \o <<"e", "s">> ELSE lemma \o <<"s">>

(* The positions of the terms that match a form. *)
termsMatching(terms, form) ==
  {i \in DOMAIN terms : toLowerCase(terms[i]) = form}

firstOf(S) == CHOOSE i \in S : \A j \in S : i <= j

(* termExact || termPlural, as an option. *)
pickTerm(terms, exact, plural) ==
  IF exact # {} THEN <<terms[firstOf(exact)]>>
  ELSE IF plural # {} THEN <<terms[firstOf(plural)]>>
  ELSE <<>>

posOfTags(tags, lemma) ==
  IF "Noun" \in tags THEN "noun"
  ELSE IF "Verb" \in tags
       THEN IF endsWith(lemma, <<"e", "d">>) \/ endsWith(lemma, <<"i", "n", "g">>)
            THEN "adjective" ELSE "verb"
  ELSE IF "Adjective" \in tags THEN "adjective"
  ELSE IF "Adverb" \in tags THEN "adverb"
  ELSE ""

posOfTerm(term, lemma) ==
  IF term = <<>> THEN "" ELSE posOfTags(nlpTags(term[1]), lemma)

posInTerms(terms, lemma) ==
  posOfTerm(pickTerm(terms, termsMatching(terms, lemma),
                     termsMatching(terms, pluralFormOf(lemma))),
            lemma)

posFromExample(example, lemma) ==
  IF example = <<>> THEN "" ELSE posInTerms(split(example, " "), lemma)

(* ------------------------------------------------------------------ *)
(* Inputs and bounds                                                   *)
(* ------------------------------------------------------------------ *)

(* The raw words an input file is drawn from: {word, count?, example?}. *)
RawPool == {
  [word |-> w_hens,  count |-> <<3>>, example |-> <<"t", "w", "o", " ", "h", "e", "n", "s">>],
  [word |-> w_owl,   count |-> <<3>>, example |-> <<>>],
  [word |-> w_owls,  count |-> <<2>>, example |-> <<>>],
  [word |-> w_Pig,   count |-> <<3>>, example |-> <<>>],
  [word |-> w_cats,  count |-> <<>>,  example |-> <<>>],
  [word |-> w_cat,   count |-> <<6>>, example |-> <<"a", " ", "c", "a", "t">>],
  [word |-> w_sun,   count |-> <<1>>, example |-> <<>>],
  [word |-> w_dogs,  count |-> <<2>>, example |-> <<>>],
  [word |-> w_the,   count |-> <<9>>, example |-> <<>>],
  [word |-> w_thes,  count |-> <<1>>, example |-> <<>>],
  [word |-> w_blank, count |-> <<1>>, example |-> <<>>],
  [word |-> <<>>,    count |-> <<>>,  example |-> <<>>] }

(* The raw words the inputs of the command sequences are drawn from. *)
DeckPool == {
  [word |-> w_hens,  count |-> <<3>>, example |-> <<"t", "w", "o", " ", "h", "e", "n", "s">>],
  [word |-> w_pigs,  count |-> <<4>>, example |-> <<>>],
  [word |-> w_Pig,   count |-> <<3>>, example |-> <<>>],
  [word |-> w_owl,   count |-> <<3>>, example |-> <<>>],
  [word |-> w_cats,  count |-> <<>>,  example |-> <<>>] }

(* Longest raw input of a single ingest run, longest raw input within a
   command sequence, most ingest runs of a sequence, largest --batch. *)
MaxRaw == 3
MaxDeckRaw == 2
MaxIngests == 2
MaxBatch == 2
MaxSenses == 3

RECURSIVE SeqsUpTo(_, _)
SeqsUpTo(S, n) ==
  IF n = 0 THEN {<<>>}
  ELSE LET shorter == SeqsUpTo(S, n - 1)
       IN  shorter \cup {Append(q, x) : q \in shorter, x \in S}

RawInputs == SeqsUpTo(RawPool, MaxRaw)
DeckInputs == SeqsUpTo(DeckPool, MaxDeckRaw)

Tiers == {1, 2, 3}
BatchSizes == 0..MaxBatch

(* ------------------------------------------------------------------ *)
(* State                                                               *)
(* ------------------------------------------------------------------ *)

VARIABLES
  pc,                     \* "idle" | "ingest" (tasks in flight) | "finished"
                          \*   | "failed" (ingest rejected)
  ingests,                \* ingest runs started so far
  rawWords,               \* ingest: the parsed input array
  taskState,              \* ingest: per raw word, "queued" | "lookup" | "done"
  processedEntries,       \* ingest: per raw word, the task's result (an option)
  outcome,                \* ingest: per raw word, the return the task took
  seen,                   \* ingest: the seen-lemma set
  skippedStop,            \* ingest: counter
  skippedDup,             \* ingest: counter
  loggedStopWords,        \* ingest: array
  loggedDuplicateLemmas,  \* ingest: array
  wnPosCache,             \* ingest: lemma -> part of speech, process-wide
  zipfMap,                \* ingest: the Zipf map the run works with
  zipfFile,               \* data/subtlex_zipf.json
  subtlex,                \* data/SUBTLEX-US.xlsx, its rows
  wordnet,                \* wordnet-db: lemma -> what its lookup ends in
  reference,              \* stop_en.txt, known.txt and cefr_map.json
  cleanedFile,            \* data/cleaned-words.json
  stopLogFile,            \* data/skipped_stop_words.txt
  dupLogFile,             \* data/skipped_duplicate_lemmas.txt
  mismatchLog,            \* data/cefr_pos_mismatches.log, its lines
  decks,                  \* data/decks: file name -> content
  written,                \* history: file name -> the batch list written to it
  lastExport,             \* history: what the last export run did
  exportRun,              \* export: the locals of the run in progress
  filesBefore,            \* history: the files as the last ingest found them
  probe                   \* a pure function under test: its input and result

ingestVars == <<rawWords, taskState, processedEntries, outcome, seen,
                skippedStop, skippedDup, loggedStopWords,
                loggedDuplicateLemmas, wnPosCache, zipfMap>>
fileVars == <<cleanedFile, stopLogFile, dupLogFile, mismatchLog, decks,
              zipfFile, subtlex, wordnet, reference>>
vars == <<pc, ingests, ingestVars, fileVars, written, lastExport, exportRun,
          filesBefore, probe>>

NoFile == [exists |-> FALSE, data |-> <<>>]
FileOf(data) == [exists |-> TRUE, data |-> data]

(* What an export run read, computed and did; status is "none" before
   any run, "aborted" (no usable artifact), "empty" (nothing in the
   window) or "wrote". *)
NoExport == [status |-> "none", tier |-> 0, batchSize |-> 0, batchNum |-> 0,
             all |-> <<>>, exported |-> {}, words |-> <<>>, batch |-> <<>>,
             decksBefore |-> <<>>, writtenBefore |-> <<>>,
             wordNetResults |-> <<>>, settled |-> <<>>]

(* The locals of exportTier while its lookups are in flight: tasks is
   per entry "queued" | "awaiting" | "done", wordNetResults per entry an
   option, settled the order the lookups came back in. *)
NoRun == [active |-> FALSE, tier |-> 0, batchSize |-> 0, currentBatchNum |-> 0,
          all |-> <<>>, exported |-> {}, words |-> <<>>,
          currentBatchList |-> <<>>, tasks |-> <<>>, wordNetResults |-> <<>>,
          wnCache |-> <<>>, settled |-> <<>>]

(* The files a run can write, before any of them exists. *)
NoFiles == [cleanedFile |-> NoFile, stopLogFile |-> NoFile,
            dupLogFile |-> NoFile, mismatchLog |-> <<>>, decks |-> <<>>,
            zipfFile |-> NoFile]

NoProbe == [fn |-> "none", args |-> <<>>, result |-> <<>>]

(* No command has run: no locals, no file written. *)
InitLocals ==
  /\ pc = "idle"
  /\ ingests = 0
  /\ rawWords = <<>>
  /\ taskState = <<>>
  /\ processedEntries = <<>>
  /\ outcome = <<>>
  /\ seen = {}
  /\ skippedStop = 0
  /\ skippedDup = 0
  /\ loggedStopWords = <<>>
  /\ loggedDuplicateLemmas = <<>>
  /\ wnPosCache = <<>>
  /\ zipfMap = <<>>
  /\ stopLogFile = NoFile
  /\ dupLogFile = NoFile
  /\ mismatchLog = <<>>
  /\ decks = <<>>
  /\ written = <<>>
  /\ lastExport = NoExport
  /\ exportRun = NoRun
  /\ filesBefore = NoFiles

(* Everything but the artifact and the probe, with the Zipf map cached. *)
InitRest ==
  /\ InitLocals
  /\ zipfFile = FileOf(ZIPF_JSON)
  /\ subtlex = NoFile
  /\ wordnet = soundLookups
  /\ reference = soundReference

Init ==
  /\ InitRest
  /\ cleanedFile = NoFile
  /\ probe = NoProbe

(* ------------------------------------------------------------------ *)
(* ingest <words.json>                                                 *)
(* ------------------------------------------------------------------ *)

(* pLimit(8): at most this many tasks between their start and their end. *)
wnLookupLimit == 8

filesNow == [cleanedFile |-> cleanedFile, stopLogFile |-> stopLogFile,
             dupLogFile |-> dupLogFile, mismatchLog |-> mismatchLog,
             decks |-> decks, zipfFile |-> zipfFile]

(* The command starts: reference data and the input are read, the run's
   locals are fresh, every task is queued behind the limiter.  A process
   runs one command, so the process-wide cache is fresh too. *)
IngestStart(input) ==
  /\ pc = "idle"
  /\ ~exportRun.active
  /\ ingests < MaxIngests
  /\ pc' = "ingest"
  /\ ingests' = ingests + 1
  /\ rawWords' = input
  /\ taskState' = [i \in 1..Len(input) |-> "queued"]
  /\ processedEntries' = [i \in 1..Len(input) |-> <<>>]
  /\ outcome' = [i \in 1..Len(input) |-> "pending"]
  /\ seen' = {}
  /\ skippedStop' = 0
  /\ skippedDup' = 0
  /\ loggedStopWords' = <<>>
  /\ loggedDuplicateLemmas' = <<>>
  /\ wnPosCache' = <<>>
  /\ zipfMap' = ensureZipfMap(zipfFile, subtlex).map
  /\ zipfFile' = ensureZipfMap(zipfFile, subtlex).file
  /\ lastExport' = NoExport
  /\ filesBefore' = filesNow
  /\ UNCHANGED <<cleanedFile, stopLogFile, dupLogFile, mismatchLog, decks,
                 subtlex, wordnet, reference, written, probe, exportRun>>

(* fs.readJSON(filePath) rejects (line 271): the reference data were
   loaded, no task was made. *)
IngestUnreadable ==
  /\ pc = "idle"
  /\ ~exportRun.active
  /\ ingests < MaxIngests
  /\ pc' = "failed"
  /\ ingests' = ingests + 1
  /\ zipfFile' = ensureZipfMap(zipfFile, subtlex).file
  /\ lastExport' = NoExport
  /\ filesBefore' = filesNow
  /\ UNCHANGED <<ingestVars, cleanedFile, stopLogFile, dupLogFile,
                 mismatchLog, decks, subtlex, wordnet, reference, written, probe,
                 exportRun>>

stop == readLines(reference.stop)
known == readLines(reference.known)
ensureCefrMap == cefrMapOf(reference.cefr)

lemmaOf(r) == chooseLemma(toLowerCase(r.word), ensureCefrMap, zipfMap)

(* The JSON value of an element's word when it is a number: r.word is
   truthy and r.word.trim is not a function (line 286 throws). *)
w_number == <<"5 (a number)">>

cannotProcess(r) == r.word = w_number

(* !r.word || r.word.trim() === '' *)
isBlank(word) == Len(word) = 0 \/ Len(trim(word)) = 0

(* Variants of the head of a task: without the seen-lemma test, with the
   seen-lemma return left uncounted, without the stop test on the lemma. *)
headOutcomeNoSeen(word, wlower, lemma, seenNow) ==
  IF isBlank(word) THEN "empty"
  ELSE IF wlower \in stop THEN "stop"
  ELSE IF lemma \in stop THEN "stopLemma"
  ELSE IF lemma \in known THEN "known"
  ELSE "entry"

headOutcomeQuietDup(word, wlower, lemma, seenNow) ==
  IF isBlank(word) THEN "empty"
  ELSE IF wlower \in stop THEN "stop"
  ELSE IF lemma \in stop THEN "stopLemma"
  ELSE IF lemma \in seenNow THEN "known"
  ELSE IF lemma \in known THEN "known"
  ELSE "entry"

headOutcomeNoStopLemma(word, wlower, lemma, seenNow) ==
  IF isBlank(word) THEN "empty"
  ELSE IF wlower \in stop THEN "stop"
  ELSE IF lemma \in seenNow THEN "dup"
  ELSE IF lemma \in known THEN "known"
  ELSE "entry"

(* A variant that takes a known lemma for a lemma already seen. *)
headOutcomeKnownAsDup(word, wlower, lemma, seenNow) ==
  IF isBlank(word) THEN "empty"
  ELSE IF wlower \in stop THEN "stop"
  ELSE IF lemma \in stop THEN "stopLemma"
  ELSE IF lemma \in seenNow \/ lemma \in known THEN "dup"
  ELSE "entry"

(* Which return the synchronous head of a task takes (lines 286-315). *)
headOutcome(word, wlower, lemma, seenNow) ==
  IF isBlank(word) THEN "empty"
  ELSE IF wlower \in stop THEN "stop"
  ELSE IF lemma \in stop THEN "stopLemma"
  ELSE IF lemma \in seenNow THEN "dup"
  ELSE IF lemma \in known THEN "known"
  ELSE "entry"

(* zipf[wlower] ?? zipf[lemma] ?? 3.5 *)
nullish(zipf, w) ==
  IF w \in DOMAIN zipf THEN zipf[w] = JsonNull ELSE w \notin InheritedKeys

(* zipf[w] when it is not nullish. *)
propertyOf(zipf, w) == IF w \in DOMAIN zipf THEN zipf[w] ELSE AFunction

zipfOf(zipf, wlower, lemma) ==
  IF ~nullish(zipf, wlower) THEN propertyOf(zipf, wlower)
  ELSE IF ~nullish(zipf, lemma) THEN propertyOf(zipf, lemma)
  ELSE DefaultZipf

(* The suffix heuristic, applied when WordNet gave no part of speech. *)
heuristicPos(lemma, posFound) ==
  IF posFound # "" THEN posFound
  ELSE IF endsWith(lemma, <<"l", "y">>) THEN "adverb"
  ELSE IF endsWith(lemma, <<"i", "n", "g">>) \/ endsWith(lemma, <<"e", "d">>)
       THEN "verb"
  ELSE IF endsWith(lemma, <<"n", "e", "s", "s">>)
          \/ endsWith(lemma, <<"t", "i", "o", "n">>)
       THEN "noun"
  ELSE IF endsWith(lemma, <<"o", "u", "s">>)
          \/ endsWith(lemma, <<"i", "v", "e">>)
          \/ endsWith(lemma, <<"f", "u", "l">>)
       THEN "adjective"
  ELSE ""

(* cefrDataForLemma?.pos ?? '' and cefrDataForLemma?.level ?? 'B2' *)
cefrPosOf(cefrData) == IF cefrData = <<>> THEN "" ELSE cefrData[1].pos
cefrLevelOf(cefrData) == IF cefrData = <<>> THEN "B2" ELSE cefrData[1].level

fallbackPos(pos, cefrPos) == IF pos = "" /\ cefrPos # "" THEN cefrPos ELSE pos

posMismatch(pos, cefrPos) == pos # "" /\ cefrPos # "" /\ pos # cefrPos

mismatchLine(lemma, pos, cefrPos) ==
  lemma \o <<"\t", "WN:", pos, "\t", "CEFR:", cefrPos, "\n">>

contextPos(example, ctxPos, pos) ==
  IF example # <<>> /\ ctxPos # "" /\ ctxPos # pos THEN ctxPos ELSE pos

makeEntry(r, lemma, level, pos, z) ==
  [word |-> r.word, count |-> r.count, example |-> r.example,
   lemma |-> lemma, level |-> level, pos |-> pos, zipf |-> z,
   tier |-> decideTier(level, z, r.count)]

(* pos is the part of speech after the heuristic and the CEFR fallback;
   mismatch tells whether a line goes to cefr_pos_mismatches.log. *)
entryWith(r, lemma, z, level, cefrPos, pos) ==
  [entry |-> makeEntry(r, lemma, level,
                       contextPos(r.example,
                                  posFromExample(r.example, lemma), pos),
                       z),
   mismatch |-> posMismatch(pos, cefrPos),
   line |-> mismatchLine(lemma, pos, cefrPos)]

entryFrom(r, lemma, z, cefrData, heur) ==
  entryWith(r, lemma, z, cefrLevelOf(cefrData), cefrPosOf(cefrData),
            fallbackPos(heur, cefrPosOf(cefrData)))

(* The task's code from the part of speech found to the entry returned
   (lines 317-380). *)
finishEntry(r, wlower, lemma, posFound) ==
  entryFrom(r, lemma, zipfOf(zipfMap, wlower, lemma),
            lookupKey(ensureCefrMap, lemma), heuristicPos(lemma, posFound))

(* The task returns its entry. *)
TaskReturn(i, done) ==
  /\ processedEntries' = [processedEntries EXCEPT ![i] = <<done.entry>>]
  /\ mismatchLog' = IF done.mismatch
                    THEN Append(mismatchLog, done.line) ELSE mismatchLog
  /\ taskState' = [taskState EXCEPT ![i] = "done"]

stopLogLine(how, wlower, lemma) ==
  IF how = "stop" THEN wlower
  ELSE wlower \o <<" ", "(lemma:", " ">> \o lemma \o <<")">>

TaskHead(i, r, wlower, lemma, how) ==
  /\ outcome' = [outcome EXCEPT ![i] = how]
  /\ skippedStop' = IF how \in {"stop", "stopLemma"}
                    THEN skippedStop + 1 ELSE skippedStop
  /\ loggedStopWords' =
       IF how \in {"stop", "stopLemma"}
       THEN Append(loggedStopWords, stopLogLine(how, wlower, lemma))
       ELSE loggedStopWords
  /\ skippedDup' = IF how = "dup" THEN skippedDup + 1 ELSE skippedDup
  /\ loggedDuplicateLemmas' =
       IF how = "dup" THEN Append(loggedDuplicateLemmas, lemma)
       ELSE loggedDuplicateLemmas
  /\ seen' = IF how = "entry" THEN seen \cup {lemma} ELSE seen
  /\ IF how = "entry" /\ lemma \in DOMAIN wnPosCache
     THEN TaskReturn(i, finishEntry(r, wlower, lemma, wnPosCache[lemma]))
     ELSE /\ taskState' = [taskState EXCEPT ![i] =
                             IF how = "entry" THEN "lookup" ELSE "done"]
          /\ UNCHANGED <<processedEntries, mismatchLog>>

TaskRun(i, r, wlower, lemma) ==
  TaskHead(i, r, wlower, lemma, headOutcome(r.word, wlower, lemma, seen))

TaskLemma(i, r, wlower) ==
  TaskRun(i, r, wlower, chooseLemma(wlower, ensureCefrMap, zipfMap))

(* A variant of the throw that drops the element and goes on. *)
TaskSkips(i) ==
  /\ pc' = pc
  /\ taskState' = [taskState EXCEPT ![i] = "done"]
  /\ outcome' = [outcome EXCEPT ![i] = "empty"]
  /\ UNCHANGED <<processedEntries, mismatchLog, seen, skippedStop,
                 skippedDup, loggedStopWords, loggedDuplicateLemmas>>

(* The task throws: its promise rejects, Promise.all (line 385) rejects
   and so does ingest, which nothing awaits or catches (line 625). *)
TaskThrows(i) ==
  /\ pc' = "failed"
  /\ taskState' = [taskState EXCEPT ![i] = "done"]
  /\ outcome' = [outcome EXCEPT ![i] = "threw"]
  /\ UNCHANGED <<processedEntries, mismatchLog, seen, skippedStop,
                 skippedDup, loggedStopWords, loggedDuplicateLemmas>>

(* cefr is null: cefr_map.json is there and does not parse. *)
cefrNull == reference.cefr.exists /\ ~reference.cefr.parses

(* cefr[lemma] of line 317 throws after seen.add(lemma). *)
TaskThrowsMarked(i, lemma) ==
  /\ pc' = "failed"
  /\ taskState' = [taskState EXCEPT ![i] = "done"]
  /\ outcome' = [outcome EXCEPT ![i] = "threw"]
  /\ seen' = seen \cup {lemma}
  /\ UNCHANGED <<processedEntries, mismatchLog, skippedStop,
                 skippedDup, loggedStopWords, loggedDuplicateLemmas>>

(* The task when cefr is null: cefr[v] throws in chooseLemma when there
   is a variant to test (line 231); with none the lemma is the word and
   cefr[lemma] throws at line 317 unless the task returned before. *)
TaskOnNullMap(i, r, wlower) ==
  IF isBlank(r.word) \/ wlower \in stop
  THEN TaskHead(i, r, wlower, wlower,
                headOutcome(r.word, wlower, wlower, seen)) /\ pc' = pc
  ELSE IF lemmaVariants(lemmaCandidates(wlower), wlower) # <<>>
  THEN TaskThrows(i)
  ELSE IF headOutcome(r.word, wlower, wlower, seen) = "entry"
  THEN TaskThrowsMarked(i, wlower)
  ELSE TaskHead(i, r, wlower, wlower,
                headOutcome(r.word, wlower, wlower, seen)) /\ pc' = pc

(* A limiter that starts any queued task at any time. *)
anyInLine(tasks, i) == tasks[i] = "queued"

(* wnLookupLimit(async () => ...) over rawWords.map: the queue is served
   in input order while fewer than the limit are at their lookup. *)
nextInLine(tasks, i) ==
  /\ tasks[i] = "queued"
  /\ \A j \in 1..(i - 1) : tasks[j] # "queued"
  /\ Cardinality({j \in DOMAIN tasks : tasks[j] = "lookup"}) < wnLookupLimit

(* The limiter starts the next queued task, in input order; the task runs
   to its first await (the WordNet lookup), to its return or to a throw.
   After a rejection the limiter goes on with its queue for as long as
   the process lives. *)
TaskStart(i) ==
  /\ pc \in {"ingest", "failed"}
  /\ i \in DOMAIN taskState
  /\ nextInLine(taskState, i)
  /\ IF cannotProcess(rawWords[i]) THEN TaskThrows(i)
     ELSE IF cefrNull
     THEN TaskOnNullMap(i, rawWords[i], toLowerCase(rawWords[i].word))
     ELSE /\ TaskLemma(i, rawWords[i], toLowerCase(rawWords[i].word))
          /\ pc' = pc
  /\ UNCHANGED <<ingests, probe, rawWords, wnPosCache, zipfMap, zipfFile,
                 subtlex, wordnet, reference, cleanedFile, stopLogFile,
                 dupLogFile, decks, written, lastExport, exportRun, filesBefore>>

(* wnResults?.length ? mapWordNetPosToStandard(wnResults[0].pos) : '' *)
firstPos(wnResults) ==
  IF Len(wnResults) > 0 THEN mapWordNetPosToStandard(wnResults[1].pos) ELSE ""

TaskAnswer(i, r, wlower, lemma, posFound) ==
  /\ wnPosCache' = (lemma :> posFound) @@ wnPosCache
  /\ TaskReturn(i, finishEntry(r, wlower, lemma, posFound))

(* catch (err): finalPos stays '' and nothing is cached. *)
TaskCatch(i, r, wlower, lemma) ==
  /\ wnPosCache' = wnPosCache
  /\ TaskReturn(i, finishEntry(r, wlower, lemma, ""))

TaskAnswered(i, r, wlower, lemma, answer) ==
  IF answer.throws THEN TaskCatch(i, r, wlower, lemma)
  ELSE TaskAnswer(i, r, wlower, lemma, firstPos(answer.senses))

TaskLookup(i, r, wlower, lemma) ==
  TaskAnswered(i, r, wlower, lemma, lookupAsync(wordnet, lemma))

TaskAwait(i, r, wlower) ==
  TaskLookup(i, r, wlower, chooseLemma(wlower, ensureCefrMap, zipfMap))

(* A lookup answers: the task resumes and runs to its return. *)
TaskResume(i) ==
  /\ pc \in {"ingest", "failed"}
  /\ i \in DOMAIN taskState
  /\ taskState[i] = "lookup"
  /\ TaskAwait(i, rawWords[i], toLowerCase(rawWords[i].word))
  /\ UNCHANGED <<pc, ingests, probe, rawWords, zipfMap, zipfFile, subtlex, wordnet, reference,
                 outcome, seen, skippedStop, skippedDup,
                 loggedStopWords, loggedDuplicateLemmas, cleanedFile,
                 stopLogFile, dupLogFile, decks, written, lastExport, exportRun, filesBefore>>

(* processedEntries.filter(Boolean) *)
keptEntries(kept) == [i \in 1..Len(kept) |-> kept[i][1]]

cleanedOf(results) ==
  keptEntries(filterSeq(results, {i \in DOMAIN results : results[i] # <<>>}))

(* fs.writeJSON(CLEANED_JSON, cleaned): the array as a later readJSON
   gives it back. *)
jsonOfEntries(cleaned) ==
  [i \in DOMAIN cleaned |-> [cleaned[i] EXCEPT !.zipf = jsonNumber(@)]]

(* The artifacts of the runs of an ingest under test, in order. *)
artifactNoted(artifact) ==
  IF probe.fn = "ingest" THEN [probe EXCEPT !.result = Append(@, artifact)]
  ELSE probe

(* A variant that resolves with the first task to finish. *)
promiseAny(tasks) == tasks = <<>> \/ \E i \in DOMAIN tasks : tasks[i] = "done"

(* The counts an ingest run keeps (lines 277-278) and reports in its
   last line (lines 415-422). *)
ingestCounts == [stop |-> skippedStop, duplicates |-> skippedDup]

(* await Promise.all(cleanedPromises) resolves: every task has returned. *)
promiseAll(tasks) == \A i \in DOMAIN tasks : tasks[i] = "done"

(* Promise.all has every result: the side files and the artifact are
   written (lines 385-413). *)
IngestFinish ==
  /\ pc = "ingest"
  /\ promiseAll(taskState)
  /\ stopLogFile' = IF Len(loggedStopWords) > 0
                    THEN FileOf(join(loggedStopWords, <<"\n">>)) ELSE stopLogFile
  /\ dupLogFile' = IF Len(loggedDuplicateLemmas) > 0
                   THEN FileOf(join(loggedDuplicateLemmas, <<"\n">>))
                   ELSE dupLogFile
  /\ cleanedFile' = FileOf(jsonOfEntries(cleanedOf(processedEntries)))
  /\ probe' = artifactNoted(jsonOfEntries(cleanedOf(processedEntries)))
  /\ pc' = "finished"
  /\ UNCHANGED <<ingests, ingestVars, mismatchLog, decks, zipfFile,
                 subtlex, wordnet, reference, written, lastExport, exportRun, filesBefore>>

(* The process ends, after the last line of ingest or on the unhandled
   rejection; its locals are gone. *)
IngestExit ==
  /\ pc \in {"finished", "failed"}
  /\ pc' = "idle"
  /\ rawWords' = <<>>
  /\ taskState' = <<>>
  /\ processedEntries' = <<>>
  /\ outcome' = <<>>
  /\ seen' = {}
  /\ skippedStop' = 0
  /\ skippedDup' = 0
  /\ loggedStopWords' = <<>>
  /\ loggedDuplicateLemmas' = <<>>
  /\ wnPosCache' = <<>>
  /\ zipfMap' = <<>>
  /\ UNCHANGED <<ingests, probe, fileVars, written, lastExport, exportRun, filesBefore>>

(* ------------------------------------------------------------------ *)
(* Array.prototype.sort: stable, by a comparator                       *)
(* ------------------------------------------------------------------ *)

(* (a, b) => (b.meta?.freqCnt ?? 0) - (a.meta?.freqCnt ?? 0) *)
freqOf(r) == IF r.freqCnt = <<>> THEN 0 ELSE r.freqCnt[1]
byFreqCnt(a, b) == freqOf(b) - freqOf(a)

(* (a, b) => by count, descending, then by Zipf score, descending *)
(* What the subtraction makes of a score read from JSON: null is 0. *)
toNumber(z) == IF z = JsonNull THEN 0 ELSE z

byCountThenZipf(a, b) ==
  IF countOf(b) # countOf(a) THEN countOf(b) - countOf(a)
  ELSE toNumber(b.zipf) - toNumber(a.zipf)

(* The comparator a call of sort is given, by its name. *)
compareBy(cmp, a, b) ==
  IF cmp = "byFreqCnt" THEN byFreqCnt(a, b) ELSE byCountThenZipf(a, b)

(* The comparators used are total preorders: an element's place is the
   number of elements that sort before it, ties kept in array order. *)
sortBy(s, cmp) ==
  LET before(i) == {j \in DOMAIN s :
                      \/ compareBy(cmp, s[j], s[i]) < 0
                      \/ (compareBy(cmp, s[j], s[i]) = 0 /\ j < i)}
  IN  [k \in 1..Len(s) |->
         s[CHOOSE i \in DOMAIN s : Cardinality(before(i)) = k - 1]]

(* Array.prototype.slice(start, end) with 0-based, end-exclusive bounds. *)
slice(s, start, end) ==
  LET lo == IF start > Len(s) THEN Len(s) ELSE start
      hi == IF end > Len(s) THEN Len(s) ELSE end
  IN  IF hi <= lo THEN <<>> ELSE SubSeq(s, lo + 1, hi)

(* ------------------------------------------------------------------ *)
(* Sense selection                                                     *)
(* ------------------------------------------------------------------ *)

(* The positions of the senses with a standard part of speech. *)
sensesOfPos(results, pos) ==
  {i \in DOMAIN results : mapWordNetPosToStandard(results[i].pos) = pos}

(* results.filter(...) when a part of speech is desired, else []. *)
samePosSenses(results, desiredPos) ==
  IF desiredPos # "" THEN filterSeq(results, sensesOfPos(results, desiredPos))
  ELSE <<>>

(* A variant that sorts all the senses, matching or not. *)
sortedSensesOverall(results, samePos) == sortBy(results, "byFreqCnt")

(* (samePos.length ? samePos : results).sort(by freqCnt, descending) *)
sortedSenses(results, samePos) ==
  sortBy(IF Len(samePos) > 0 THEN samePos ELSE results, "byFreqCnt")

(* A variant of the override that falls back to the last sense. *)
nounOverrideOrLast(sorted, nouns) ==
  IF nouns # {} THEN sorted[firstOf(nouns)] ELSE sorted[Len(sorted)]

(* The noun override: the first noun sense of the sorted list, if any. *)
nounOverride(sorted, nouns) ==
  IF nouns # {} THEN sorted[firstOf(nouns)] ELSE sorted[1]

bestOf(sorted, desiredPos) ==
  IF desiredPos = "noun" /\ mapWordNetPosToStandard(sorted[1].pos) # "noun"
  THEN nounOverride(sorted, sensesOfPos(sorted, "noun"))
  ELSE sorted[1]

(* The result is an option: <<>> is null. *)
pickBestSense(results, desiredPos) ==
  IF Len(results) = 0 THEN <<>>
  ELSE <<bestOf(sortedSenses(results, samePosSenses(results, desiredPos)),
                desiredPos)>>

(* results as the caller holds them after pickBestSense returned: sort
   is in place, and it is the caller's array that is sorted when no
   sense has the desired part of speech. *)
resultsAfterPick(results, desiredPos) ==
  IF Len(results) > 0 /\ (desiredPos = "" \/ sensesOfPos(results, desiredPos) = {})
  THEN sortBy(results, "byFreqCnt") ELSE results

(* ------------------------------------------------------------------ *)
(* Enrichment of one entry (the task of lines 538-578)                 *)
(* ------------------------------------------------------------------ *)

RECURSIVE flatten(_)
flatten(ss) == IF Len(ss) = 0 THEN <<>> ELSE Head(ss) \o flatten(Tail(ss))

(* [...new Set(xs)]: first occurrences, in order. *)
uniqSeq(xs) ==
  filterSeq(xs, {i \in DOMAIN xs : \A j \in 1..(i - 1) : xs[j] # xs[i]})

replaceUnderscores(s) == [i \in 1..Len(s) |-> IF s[i] = "_" THEN " " ELSE s[i]]

(* s.replace(/_/g, ' ').trim().toLowerCase() *)
cleanSynonym(s) == toLowerCase(trim(replaceUnderscores(s)))

MaxSynonyms == 3

synonymsOfSenses(senses) == flatten([i \in DOMAIN senses |-> senses[i].synonyms])

cleanAll(raw) == [i \in DOMAIN raw |-> cleanSynonym(raw[i])]

(* A variant without the slice. *)
keepSynonymsAll(uniq, lemmaLower) ==
  filterSeq(uniq, {i \in DOMAIN uniq :
                     uniq[i] # <<>> /\ uniq[i] # lemmaLower})

(* uniq.filter((s) => s && s !== lemma.toLowerCase()).slice(0, 3) *)
keepSynonyms(uniq, lemmaLower) ==
  slice(filterSeq(uniq, {i \in DOMAIN uniq :
                           uniq[i] # <<>> /\ uniq[i] # lemmaLower}),
        0, MaxSynonyms)

synonymsFor(after, synSetPos, lemmaLower) ==
  keepSynonyms(
    uniqSeq(cleanAll(synonymsOfSenses(
      filterSeq(after, sensesOfPos(after, synSetPos))))),
    lemmaLower)

(* best.def.split(';')[0].trim() *)
definitionOf(best) == trim(split(best.def, ";")[1])

NoEnrichment == [def |-> <<>>, syn |-> <<>>]

(* r.synonyms of a sense of the chosen part of speech is undefined: the
   clean-up of line 563 throws after the definition was set. *)
synonymsThrow(after, synSetPos) ==
  \E i \in sensesOfPos(after, synSetPos) : "synonyms" \in after[i].lacks

(* The body of the try (lines 545-570) from best on; best.def.split
   throws when the sense has no def, before anything is set. *)
enrichWith(best, after, lemma) ==
  IF best = <<>> THEN NoEnrichment
  ELSE IF "def" \in best[1].lacks THEN NoEnrichment
  ELSE IF synonymsThrow(after, mapWordNetPosToStandard(best[1].pos))
  THEN [def |-> definitionOf(best[1]), syn |-> <<>>]
  ELSE [def |-> definitionOf(best[1]),
        syn |-> synonymsFor(after, mapWordNetPosToStandard(best[1].pos),
                            toLowerCase(lemma))]

enrichResults(results, entry) ==
  enrichWith(pickBestSense(results, entry.pos),
             resultsAfterPick(results, entry.pos), entry.lemma)

(* A rejected lookup is caught (line 571): definition '' and no synonym. *)
enrichAnswer(answer, entry) ==
  IF answer.throws THEN NoEnrichment ELSE enrichResults(answer.senses, entry)

enrich(entry) == enrichAnswer(lookupAsync(wordnet, entry.lemma), entry)

(* ------------------------------------------------------------------ *)
(* Deck files                                                          *)
(* ------------------------------------------------------------------ *)

RECURSIVE digits(_)
digits(n) == IF n < 10 THEN <<n>> ELSE digits(n \div 10) \o <<n % 10>>

(* String(n).padStart(2, '0') *)
padDigits(ds) == IF Len(ds) < 2 THEN <<0>> \o ds ELSE ds
pad(n) == padDigits(digits(n))

(* Number("007") *)
RECURSIVE numberOf(_)
numberOf(ds) ==
  IF Len(ds) = 0 THEN 0
  ELSE 10 * numberOf(SubSeq(ds, 1, Len(ds) - 1)) + ds[Len(ds)]

(* A variant that names every file as one of tier 1. *)
deckFileNameTierOne(tier, batchNum) == [tier |-> 1, num |-> pad(batchNum)]

(* deck_t{tier}_{num}.tsv: the tier of the prefix and the digits. *)
deckFileName(tier, batchNum) == [tier |-> tier, num |-> pad(batchNum)]

deckFilesOf(files, tier) == {f \in DOMAIN files : f.tier = tier}

maxOf(ids) == CHOOSE m \in ids : \A k \in ids : k <= m

(* Variants of the numbering: the last number again, and a first number
   of 2. *)
nextIdAfterSame(ids) == IF ids = {} THEN 1 ELSE maxOf(ids)
nextIdAfterFromTwo(ids) == IF ids = {} THEN 2 ELSE maxOf(ids) + 1

nextIdAfter(ids) == IF ids = {} THEN 1 ELSE maxOf(ids) + 1

nextBatchId(files, tier) ==
  nextIdAfter({numberOf(f.num) : f \in deckFilesOf(files, tier)} \ {0})

ExampleMax == 120

(* zipf.toFixed(2) of a score kept times ten. *)
toFixed2(z) == <<ToString(z \div 10), ".", ToString(z % 10), "0">>

(* The fields of a row, joined by tabs (lines 584-594); "." stands for
   the middle dot of the tag. *)
deckLine(entry, wn, tier) ==
  join(<< entry.word,
          IF entry.pos = "" THEN <<"N/A">> ELSE <<entry.pos>>,
          <<>>,
          wn.def,
          slice(entry.example, 0, ExampleMax),
          join(wn.syn, <<",", " ">>),
          <<"Tier", ToString(tier), ".", entry.level, ".", "Zipf", " ">>
            \o toFixed2(entry.zipf) >>,
       <<"\t">>)

(* A variant that hands out the results the order the lookups came
   back in. *)
deckLinesAsSettled(batch, wordNetResults, settled, tier) ==
  [i \in DOMAIN batch |-> deckLine(batch[i], wordNetResults[settled[i]], tier)]

(* currentBatchList.map((entry, index) => [...]) over wordNetResults. *)
deckLinesWith(batch, wordNetResults, settled, tier) ==
  [i \in DOMAIN batch |-> deckLine(batch[i], wordNetResults[i], tier)]

(* The lines when every entry has its own lookup. *)
deckLinesOf(batch, tier) ==
  deckLinesWith(batch, [i \in DOMAIN batch |-> enrich(batch[i])],
                [i \in DOMAIN batch |-> i], tier)

(* const [firstCol] = line.split('\t'), of every line of a file. *)
firstColumns(lines) == {split(lines[i], "\t")[1] : i \in DOMAIN lines}

(* The lemmas export takes as already exported: the lowercased first
   word of the non-empty first column of every line of the tier's
   files (lines 469-485). *)
lemmasOfColumns(cols) == {toLowerCase(split(c, " ")[1]) : c \in cols \ {<<>>}}

exportedLemmas(files, tier) ==
  lemmasOfColumns(UNION {firstColumns(split(files[f], "\n")) :
                           f \in deckFilesOf(files, tier)})

wordsForTier(all, exported, tier) ==
  sortBy(filterSeq(all, {i \in DOMAIN all :
                           all[i].tier = tier /\ all[i].lemma \notin exported}),
         "byCountThenZipf")

(* startIndex = (currentBatchNum - 1) * batchSize; the slice ends
   batchSize later. *)
sliceFrom(words, startIndex, batchSize) ==
  slice(words, startIndex, startIndex + batchSize)

currentBatchList(words, batchNum, batchSize) ==
  sliceFrom(words, (batchNum - 1) * batchSize, batchSize)

(* A variant of the guard of the write that lets an empty window through. *)
writesAlways(batch) == TRUE

(* if (!currentBatchList.length) return; *)
writesFile(batch) == Len(batch) > 0

(* entry.zipf.toFixed(2) of line 592 throws on a score that is null. *)
linesThrow(batch) == \E i \in DOMAIN batch : batch[i].zipf = JsonNull

(* ------------------------------------------------------------------ *)
(* export --tier N [--batch K]                                         *)
(* ------------------------------------------------------------------ *)

(* cleaned-words.json holding something that is no array: a text that
   does not parse (readJSON gives null) or another JSON value. *)
NotAnArray == [exists |-> TRUE, data |-> <<>>, array |-> FALSE]

isArray(file) == "array" \notin DOMAIN file

(* A variant that only looks whether the file is there. *)
usableIfThere(file) == file.exists

(* The artifact is there and is a non-empty array (lines 447-459). *)
usableArtifact(file) == file.exists /\ isArray(file) /\ Len(file.data) > 0

ExportAbort(tier, batchSize) ==
  /\ lastExport' = [NoExport EXCEPT !.status = "aborted", !.tier = tier,
                                    !.batchSize = batchSize,
                                    !.decksBefore = decks,
                                    !.writtenBefore = written]
  /\ UNCHANGED <<decks, written>>

ExportBatch(tier, batchSize, all, exported, batchNum, words, batch) ==
  /\ lastExport' = [status |-> IF ~writesFile(batch) THEN "empty"
                                ELSE IF linesThrow(batch) THEN "failed"
                                ELSE "wrote",
                    tier |-> tier, batchSize |-> batchSize,
                    batchNum |-> batchNum, all |-> all, exported |-> exported,
                    words |-> words, batch |-> batch,
                    decksBefore |-> decks, writtenBefore |-> written,
                    wordNetResults |->
                      IF writesFile(batch)
                      THEN [i \in DOMAIN batch |-> enrich(batch[i])]
                      ELSE <<>>,
                    settled |-> IF writesFile(batch)
                                THEN [i \in DOMAIN batch |-> i] ELSE <<>>]
  /\ IF writesFile(batch) /\ ~linesThrow(batch)
     THEN /\ decks' = (deckFileName(tier, batchNum)
                         :> join(deckLinesOf(batch, tier), <<"\n">>)) @@ decks
          /\ written' = (deckFileName(tier, batchNum) :> batch) @@ written
     ELSE UNCHANGED <<decks, written>>

ExportWindow(tier, batchSize, all, exported, batchNum, words) ==
  ExportBatch(tier, batchSize, all, exported, batchNum, words,
              currentBatchList(words, batchNum, batchSize))

ExportScan(tier, batchSize, all, exported, batchNum) ==
  ExportWindow(tier, batchSize, all, exported, batchNum,
               wordsForTier(all, exported, tier))

ExportTier(tier, batchSize) ==
  /\ pc = "idle"
  /\ IF usableArtifact(cleanedFile)
     THEN ExportScan(tier, batchSize, cleanedFile.data,
                     exportedLemmas(decks, tier), nextBatchId(decks, tier))
     ELSE ExportAbort(tier, batchSize)
  /\ UNCHANGED <<pc, ingests, probe, ingestVars, zipfFile, subtlex, wordnet, reference,
                 cleanedFile, stopLogFile,
                 dupLogFile, mismatchLog, exportRun, filesBefore>>

(* ------------------------------------------------------------------ *)
(* export, lookup by lookup                                            *)
(* ------------------------------------------------------------------ *)

(* pLimit(8) of the export lookups. *)
wnExportLimit == 8

awaitingOf(tasks) == {i \in DOMAIN tasks : tasks[i] = "awaiting"}
queuedOf(tasks) == {i \in DOMAIN tasks : tasks[i] = "queued"}

(* p-limit starts the queued tasks first come, first served while fewer
   than the limit are between their start and their end. *)
startable(tasks, i) ==
  /\ i \in queuedOf(tasks)
  /\ \A j \in queuedOf(tasks) : i <= j
  /\ Cardinality(awaitingOf(tasks)) < wnExportLimit

valuesOf(options) == [i \in DOMAIN options |-> options[i][1]]

ExportLaunch(tier, batchSize, all, exported, batchNum, words, batch) ==
  IF writesFile(batch)
  THEN /\ exportRun' = [active |-> TRUE, tier |-> tier,
                        batchSize |-> batchSize, currentBatchNum |-> batchNum,
                        all |-> all, exported |-> exported, words |-> words,
                        currentBatchList |-> batch,
                        tasks |-> [i \in DOMAIN batch |-> "queued"],
                        wordNetResults |-> [i \in DOMAIN batch |-> <<>>],
                        wnCache |-> <<>>, settled |-> <<>>]
       /\ UNCHANGED <<decks, written, lastExport>>
  ELSE /\ ExportBatch(tier, batchSize, all, exported, batchNum, words, batch)
       /\ UNCHANGED exportRun

ExportSelect(tier, batchSize, all, exported, batchNum, words) ==
  ExportLaunch(tier, batchSize, all, exported, batchNum, words,
               currentBatchList(words, batchNum, batchSize))

ExportRead(tier, batchSize, all, exported, batchNum) ==
  ExportSelect(tier, batchSize, all, exported, batchNum,
               wordsForTier(all, exported, tier))

(* exportTier up to const tasks = currentBatchList.map(...) (lines
   446-537). *)
ExportStart(tier, batchSize) ==
  /\ pc = "idle"
  /\ ~exportRun.active
  /\ IF usableArtifact(cleanedFile)
     THEN ExportRead(tier, batchSize, cleanedFile.data,
                     exportedLemmas(decks, tier), nextBatchId(decks, tier))
     ELSE ExportAbort(tier, batchSize) /\ UNCHANGED exportRun
  /\ UNCHANGED <<pc, ingests, probe, ingestVars, zipfFile, subtlex, wordnet, reference,
                 cleanedFile, stopLogFile, dupLogFile, mismatchLog,
                 filesBefore>>

exportFrame ==
  <<pc, ingests, probe, ingestVars, fileVars, written, lastExport,
    filesBefore>>

(* The task of entry i begins: it returns what the cache holds for the
   lemma (line 539) or goes on to await the lookup. *)
WnTaskStart(i) ==
  /\ exportRun.active
  /\ i \in DOMAIN exportRun.tasks
  /\ startable(exportRun.tasks, i)
  /\ IF exportRun.currentBatchList[i].lemma \in DOMAIN exportRun.wnCache
     THEN exportRun' =
            [exportRun EXCEPT
               !.tasks[i] = "done",
               !.wordNetResults[i] =
                  <<exportRun.wnCache[exportRun.currentBatchList[i].lemma]>>]
     ELSE exportRun' = [exportRun EXCEPT !.tasks[i] = "awaiting"]
  /\ UNCHANGED exportFrame

WnTaskSettle(i, entry, wordNetData) ==
  exportRun' = [exportRun EXCEPT
                  !.tasks[i] = "done",
                  !.wordNetResults[i] = <<wordNetData>>,
                  !.wnCache = (entry.lemma :> wordNetData) @@ @,
                  !.settled = Append(@, i)]

(* The lookup of entry i comes back, in any order among those awaited;
   the tasks that can start have started by then (they start in
   microtasks, the lookups end in I/O callbacks). *)
WnTaskDone(i) ==
  /\ exportRun.active
  /\ i \in awaitingOf(exportRun.tasks)
  /\ \A j \in DOMAIN exportRun.tasks : ~startable(exportRun.tasks, j)
  /\ WnTaskSettle(i, exportRun.currentBatchList[i],
                  enrich(exportRun.currentBatchList[i]))
  /\ UNCHANGED exportFrame

ExportWriteLines(run, lines) ==
  /\ IF linesThrow(run.currentBatchList)
     THEN UNCHANGED <<decks, written>>
     ELSE /\ decks' = (deckFileName(run.tier, run.currentBatchNum)
                         :> join(lines, <<"\n">>)) @@ decks
          /\ written' = (deckFileName(run.tier, run.currentBatchNum)
                           :> run.currentBatchList) @@ written
  /\ lastExport' = [status |-> IF linesThrow(run.currentBatchList)
                                THEN "failed" ELSE "wrote",
                    tier |-> run.tier,
                    batchSize |-> run.batchSize,
                    batchNum |-> run.currentBatchNum, all |-> run.all,
                    exported |-> run.exported, words |-> run.words,
                    batch |-> run.currentBatchList,
                    decksBefore |-> decks, writtenBefore |-> written,
                    wordNetResults |-> valuesOf(run.wordNetResults),
                    settled |-> run.settled]

(* Promise.all(tasks) has resolved: the lines are made and the file
   written (lines 581-601), unless making the lines throws. *)
ExportWrite ==
  /\ exportRun.active
  /\ promiseAll(exportRun.tasks)
  /\ ExportWriteLines(exportRun,
                      deckLinesWith(exportRun.currentBatchList,
                                    valuesOf(exportRun.wordNetResults),
                                    exportRun.settled, exportRun.tier))
  /\ exportRun' = NoRun
  /\ UNCHANGED <<pc, ingests, probe, ingestVars, zipfFile, subtlex, wordnet, reference,
                 cleanedFile, stopLogFile, dupLogFile, mismatchLog,
                 filesBefore>>

(* ------------------------------------------------------------------ *)
(* Specifications                                                      *)
(* ------------------------------------------------------------------ *)

IngestTasks ==
  \/ \E i \in 1..(MaxRaw + 1) : TaskStart(i)
  \/ \E i \in 1..(MaxRaw + 1) : TaskResume(i)
  \/ IngestFinish
  \/ IngestExit

(* Any sequence of ingest and export commands. *)
Next ==
  \/ \E input \in DeckInputs : IngestStart(input)
  \/ IngestTasks
  \/ \E tier \in Tiers, batchSize \in BatchSizes : ExportTier(tier, batchSize)

Spec == Init /\ [][Next]_vars

(* One ingest run over every input. *)
NextIngest ==
  \/ \E input \in RawInputs : ingests = 0 /\ IngestStart(input)
  \/ IngestTasks

SpecIngest == Init /\ [][NextIngest]_vars

(* ------------------------------------------------------------------ *)
(* The batch-windowing scenario: 35 entries of tier 2, --batch 30      *)
(* ------------------------------------------------------------------ *)

(* The default of --batch. *)
DefaultBatch == 30
WindowEntries == DefaultBatch + 5

(* The k-th word of the scenario, as looked up: a base form, or a plural
   that the lemma chooser reduces to it. *)
scenarioWord(k, inflected) ==
  IF inflected THEN <<"w", ToString(k), "s">> ELSE <<"w", ToString(k)>>

(* The CleanEntry ingest makes of it when the reference data rate the
   word A2 with a Zipf score of 4.5: tier 2. *)
scenarioEntry(word, count) ==
  makeEntry([word |-> word, count |-> <<count>>, example |-> <<>>],
            chooseLemma(word, <<>>, <<>>), "A2", "noun", 45)

(* The first n words are plurals; the lookup counts rise or fall along
   the artifact. *)
scenarioArtifact(n, rising) ==
  [k \in 1..WindowEntries |->
     scenarioEntry(scenarioWord(k, k <= n),
                   IF rising THEN k % 3 ELSE (WindowEntries - k) % 3)]

InitWindow ==
  /\ InitRest
  /\ probe = NoProbe
  /\ \E n \in 0..WindowEntries, rising \in BOOLEAN :
       cleanedFile = FileOf(scenarioArtifact(n, rising))

NextWindow == ExportTier(2, DefaultBatch)

SpecWindow == InitWindow /\ [][NextWindow]_vars

(* ------------------------------------------------------------------ *)
(* ingest of more words than the limiter lets through at once          *)
(* ------------------------------------------------------------------ *)

(* Raw words beyond the limit of the limiter. *)
MaxQueued == 2

rawOf(word) == [word |-> word, count |-> <<1>>, example |-> <<>>]

(* What the words behind the first eight are drawn from: other forms of
   the first and of the eighth word, two forms of a new word, a stop
   word and a word with a known lemma. *)
QueuedPool ==
  {rawOf(scenarioWord(1, FALSE)), rawOf(scenarioWord(wnLookupLimit, TRUE)),
   rawOf(scenarioWord(wnLookupLimit + 1, FALSE)),
   rawOf(scenarioWord(wnLookupLimit + 1, TRUE)),
   rawOf(w_the), rawOf(w_dogs)}

(* Eight words of eight lemmas, the first one a plural, and the words
   behind them. *)
limitInput(queued) ==
  [i \in 1..(wnLookupLimit + MaxQueued) |->
     IF i <= wnLookupLimit THEN rawOf(scenarioWord(i, i = 1))
     ELSE queued[i - wnLookupLimit]]

InitLimit == Init

NextLimit ==
  \/ \E queued \in [1..MaxQueued -> QueuedPool] :
       ingests = 0 /\ IngestStart(limitInput(queued))
  \/ \E i \in 1..(wnLookupLimit + MaxQueued) : TaskStart(i)
  \/ \E i \in 1..(wnLookupLimit + MaxQueued) : TaskResume(i)
  \/ IngestFinish
  \/ IngestExit

SpecLimit == InitLimit /\ [][NextLimit]_vars

(* ------------------------------------------------------------------ *)
(* The classifier on its own                                           *)
(* ------------------------------------------------------------------ *)

TierScores == {0, 30, 35, 39, 40, 41, 45, 49, 50, 51, 60}
TierCounts == {<<>>} \cup {<<n>> : n \in 0..(TierOneCount + 1)}

InitTier ==
  /\ InitRest
  /\ cleanedFile = NoFile
  /\ \E level \in Levels, zipf \in TierScores, count \in TierCounts :
       probe = [fn |-> "decideTier",
                args |-> [level |-> level, zipf |-> zipf, count |-> count],
                result |-> <<>>]

ApplyDecideTier ==
  /\ probe.fn = "decideTier"
  /\ probe.result = <<>>
  /\ probe' = [probe EXCEPT !.result =
                 <<decideTier(probe.args.level, probe.args.zipf,
                              probe.args.count)>>]
  /\ UNCHANGED <<pc, ingests, ingestVars, fileVars, written, lastExport, exportRun, filesBefore>>

SpecTier == InitTier /\ [][ApplyDecideTier]_vars

(* ------------------------------------------------------------------ *)
(* ingest run again on the same input                                  *)
(* ------------------------------------------------------------------ *)

(* The frequency data a first run can find: the cached map, a sheet to
   build it from, or neither. *)
ZipfSources == {
  [cache |-> FileOf(ZIPF_JSON), sheet |-> NoFile],
  [cache |-> NoFile, sheet |-> FileOf(SUBTLEX_CLEAN)],
  [cache |-> NoFile, sheet |-> FileOf(SUBTLEX_TEXT)],
  [cache |-> FileOf(<<>>), sheet |-> FileOf(SUBTLEX_CLEAN)],
  [cache |-> NoFile, sheet |-> NoFile] }

AgainInputs == SeqsUpTo(RawPool, MaxDeckRaw)

InitAgain ==
  /\ InitLocals
  /\ cleanedFile = NoFile
  /\ \E from \in ZipfSources : zipfFile = from.cache /\ subtlex = from.sheet
  /\ wordnet = soundLookups
  /\ reference = soundReference
  /\ \E input \in AgainInputs :
       probe = [fn |-> "ingest", args |-> input, result |-> <<>>]

NextAgain ==
  \/ IngestStart(probe.args)
  \/ IngestTasks

SpecAgain == InitAgain /\ [][NextAgain]_vars

(* ------------------------------------------------------------------ *)
(* The lemma chooser on its own                                        *)
(* ------------------------------------------------------------------ *)

(* Lowercased raw words, what the lemmatizer may answer for each of its
   three reductions (the empty string included), and reference maps
   over the words. *)
LemmaWords == {w_cats, w_hens, w_cat}
Reductions == {<<>>, w_cat, w_cats, w_hen}
LevelMaps ==
  {[w \in keys |-> [level |-> "A1", pos |-> "noun"]] :
     keys \in SUBSET {w_cat, w_cats}}
ScoreMaps ==
  UNION {[keys -> {0, 45, JsonNull}] : keys \in SUBSET {w_cat, w_cats}}

InitLemma ==
  /\ InitRest
  /\ cleanedFile = NoFile
  /\ \E w \in LemmaWords, n \in Reductions, v \in Reductions,
        a \in Reductions, cefr \in LevelMaps, zipf \in ScoreMaps :
       probe = [fn |-> "chooseLemma",
                args |-> [w |-> w, noun |-> n, verb |-> v, adjective |-> a,
                          cefr |-> cefr, zipf |-> zipf],
                result |-> <<>>]

ApplyChooseLemma ==
  /\ probe.fn = "chooseLemma"
  /\ probe.result = <<>>
  /\ probe' = [probe EXCEPT !.result =
                 <<chooseFrom(<<probe.args.noun, probe.args.verb,
                                probe.args.adjective, probe.args.w>>,
                              probe.args.w, probe.args.cefr,
                              probe.args.zipf)>>]
  /\ UNCHANGED <<pc, ingests, ingestVars, fileVars, written, lastExport, exportRun, filesBefore>>

SpecLemma == InitLemma /\ [][ApplyChooseLemma]_vars

(* ------------------------------------------------------------------ *)
(* The choice of a sense on its own                                    *)
(* ------------------------------------------------------------------ *)

(* Senses by their tag and their frequency count (absent, 1 or 2). *)
SensePool ==
  { [pos |-> pos, def |-> <<"d">>, synonyms |-> <<>>, freqCnt |-> freq,
     lacks |-> {}] :
      pos \in {"n", "v", "s"}, freq \in {<<>>, <<1>>, <<2>>} }

DesiredPos == {"", "noun", "verb", "adjective", "adverb"}

InitSense ==
  /\ InitRest
  /\ cleanedFile = NoFile
  /\ \E results \in SeqsUpTo(SensePool, MaxSenses), desiredPos \in DesiredPos :
       probe = [fn |-> "pickBestSense",
                args |-> [results |-> results, desiredPos |-> desiredPos],
                result |-> <<>>]

ApplyPickBestSense ==
  /\ probe.fn = "pickBestSense"
  /\ probe.result = <<>>
  /\ probe' = [probe EXCEPT !.result =
                 <<pickBestSense(probe.args.results, probe.args.desiredPos)>>]
  /\ UNCHANGED <<pc, ingests, ingestVars, fileVars, written, lastExport,
                 exportRun, filesBefore>>

SpecSense == InitSense /\ [][ApplyPickBestSense]_vars

(* ------------------------------------------------------------------ *)
(* export over a lexical database that can fail                        *)
(* ------------------------------------------------------------------ *)

(* Every sense comes without the field. *)
sensesLacking(senses, field) ==
  [i \in DOMAIN senses |-> [senses[i] EXCEPT !.lacks = {field}]]

(* What the lookup of a lemma can end in: its senses, a throw, no
   sense, or senses that lack def or synonyms. *)
lookupsOf(lemma) ==
  { answerOf(WordNetDb[lemma]), LookupThrows, answerOf(<<>>),
    answerOf(sensesLacking(WordNetDb[lemma], "def")),
    answerOf(sensesLacking(WordNetDb[lemma], "synonyms")) }

(* A tier-1 entry as ingest writes it (count 5 puts it in tier 1). *)
exportEntry(word, pos) ==
  makeEntry([word |-> word, count |-> <<TierOneCount>>, example |-> <<>>],
            word, "B1", pos, 45)

ExportArtifacts == {
  << exportEntry(w_cat, "noun"), exportEntry(w_hen, "noun"),
     exportEntry(w_pig, "noun") >>,
  << exportEntry(w_pig, "adjective"), exportEntry(w_cat, "verb"),
     exportEntry(w_owl, "") >>,
  << exportEntry(w_sun, "noun"), exportEntry(w_pig, "noun"),
     exportEntry(w_cat, "") >> }

InitExport ==
  /\ InitLocals
  /\ zipfFile = FileOf(ZIPF_JSON)
  /\ subtlex = NoFile
  /\ probe = NoProbe
  /\ \E artifact \in ExportArtifacts : cleanedFile = FileOf(artifact)
  /\ \E cat \in lookupsOf(w_cat), hen \in lookupsOf(w_hen),
        pig \in lookupsOf(w_pig) :
       wordnet = (w_cat :> cat) @@ (w_hen :> hen) @@ (w_pig :> pig) @@
                 (w_sun :> answerOf(WordNetDb[w_sun]))
  /\ reference = soundReference

ExportTasks ==
  \/ \E i \in 1..(MaxBatch + 1) : WnTaskStart(i)
  \/ \E i \in 1..(MaxBatch + 1) : WnTaskDone(i)
  \/ ExportWrite

NextExport ==
  \/ \E batchSize \in 1..(MaxBatch + 1) : ExportStart(1, batchSize)
  \/ ExportTasks

SpecExport == InitExport /\ [][NextExport]_vars

(* ------------------------------------------------------------------ *)
(* ingest with reference files missing or unparseable                  *)
(* ------------------------------------------------------------------ *)

MissingFile == dataFile(FALSE, FALSE, <<>>)
UnparseableFile == dataFile(TRUE, FALSE, <<>>)

(* Each list there or missing, the level map there, missing or not
   parseable. *)
References ==
  [stop : {soundReference.stop, MissingFile},
   known : {soundReference.known, MissingFile},
   cefr : {soundReference.cefr, MissingFile, UnparseableFile}]

(* The frequency map cached, or neither cache nor sheet; a cache that
   does not parse reads as null, like a missing one. *)
ReferenceZipf == {FileOf(ZIPF_JSON), NoFile}

ReferencePool == {
  [word |-> w_cats, count |-> <<1>>, example |-> <<>>],
  [word |-> w_owls, count |-> <<1>>, example |-> <<>>],
  [word |-> w_dog,  count |-> <<1>>, example |-> <<>>],
  [word |-> w_sun,  count |-> <<1>>, example |-> <<>>] }

InitReference ==
  /\ InitLocals
  /\ \E files \in References : reference = files
  /\ \E cache \in ReferenceZipf : zipfFile = cache
  /\ subtlex = NoFile
  /\ wordnet = soundLookups
  /\ cleanedFile = NoFile
  /\ probe = NoProbe

NextReference ==
  \/ \E input \in SeqsUpTo(ReferencePool, MaxDeckRaw) : IngestStart(input)
  \/ IngestTasks

SpecReference == InitReference /\ [][NextReference]_vars

(* ------------------------------------------------------------------ *)
(* ingest with a stop word that has a known lemma                      *)
(* ------------------------------------------------------------------ *)

(* stop.txt with and without a word whose lemma is in known.txt. *)
StopLists == {STOP_TXT, Append(STOP_TXT, w_dogs)}

OutcomePool == {
  [word |-> w_dogs,  count |-> <<2>>, example |-> <<>>],
  [word |-> w_dog,   count |-> <<1>>, example |-> <<>>],
  [word |-> w_the,   count |-> <<9>>, example |-> <<>>],
  [word |-> w_cats,  count |-> <<>>,  example |-> <<>>],
  [word |-> w_cat,   count |-> <<6>>, example |-> <<>>],
  [word |-> w_blank, count |-> <<1>>, example |-> <<>>],
  [word |-> <<>>,    count |-> <<>>,  example |-> <<>>] }

InitOutcome ==
  /\ InitLocals
  /\ \E lines \in StopLists :
       reference = [soundReference EXCEPT !.stop.data = lines]
  /\ zipfFile = FileOf(ZIPF_JSON)
  /\ subtlex = NoFile
  /\ wordnet = soundLookups
  /\ cleanedFile = NoFile
  /\ probe = NoProbe

NextOutcome ==
  \/ \E input \in SeqsUpTo(OutcomePool, MaxRaw) :
       ingests = 0 /\ IngestStart(input)
  \/ IngestTasks

SpecOutcome == InitOutcome /\ [][NextOutcome]_vars

(* ------------------------------------------------------------------ *)
(* ingest of words with and without scores                             *)
(* ------------------------------------------------------------------ *)

(* Raw words whose raw form and lemma both have a score (cats), whose
   lemma alone has one (suns), and that have none. *)
ScorePool == {
  [word |-> w_cats, count |-> <<1>>, example |-> <<>>],
  [word |-> <<"s", "u", "n", "s">>, count |-> <<1>>, example |-> <<>>],
  [word |-> w_hens, count |-> <<3>>, example |-> <<>>],
  [word |-> w_pigs, count |-> <<6>>, example |-> <<>>],
  [word |-> w_constructor, count |-> <<1>>, example |-> <<>>] }

InitScore ==
  /\ InitLocals
  /\ reference = soundReference
  /\ \E cache \in ReferenceZipf : zipfFile = cache
  /\ subtlex = NoFile
  /\ wordnet = soundLookups
  /\ cleanedFile = NoFile
  /\ probe = NoProbe

NextScore ==
  \/ \E input \in SeqsUpTo(ScorePool, MaxDeckRaw) :
       ingests = 0 /\ IngestStart(input)
  \/ IngestTasks

SpecScore == InitScore /\ [][NextScore]_vars

(* ------------------------------------------------------------------ *)
(* Runs that fail                                                      *)
(* ------------------------------------------------------------------ *)

(* Raw words for the runs: one that goes to the mismatch log (sun is a
   noun for WordNet and a verb for the CEFR list), one that does not,
   one whose score is NaN when the map is built from the sheet with a
   text cell, one whose word is a number. *)
RunPool == {
  [word |-> w_sun,    count |-> <<TierOneCount>>, example |-> <<>>],
  [word |-> w_cats,   count |-> <<TierOneCount>>, example |-> <<>>],
  [word |-> w_hens,   count |-> <<>>, example |-> <<>>],
  [word |-> w_number, count |-> <<>>, example |-> <<>>] }

RunInputs == SeqsUpTo(RunPool, MaxDeckRaw)

RunSources == {
  [cache |-> FileOf(ZIPF_JSON), sheet |-> NoFile],
  [cache |-> NoFile, sheet |-> FileOf(SUBTLEX_TEXT)] }

InitRuns ==
  /\ InitLocals
  /\ \E from \in RunSources : zipfFile = from.cache /\ subtlex = from.sheet
  /\ wordnet = soundLookups
  /\ reference = soundReference
  /\ cleanedFile \in {NoFile, NotAnArray}
  /\ probe = NoProbe

NextRuns ==
  \/ \E input \in RunInputs : IngestStart(input)
  \/ IngestUnreadable
  \/ IngestTasks
  \/ \E tier \in {1, 3} : ExportStart(tier, MaxBatch)
  \/ ExportTasks

SpecRuns == InitRuns /\ [][NextRuns]_vars

(* ------------------------------------------------------------------ *)
(* Properties of export                                                *)
(* ------------------------------------------------------------------ *)

lemmasIn(batch) == {batch[i].lemma : i \in DOMAIN batch}

rowsOf(files, name) == split(files[name], "\n")

(* C1: with 35 entries of tier 2 and an empty deck directory, successive
   runs of export --tier 2 --batch 30 write a file of 30 rows (the run
   that finds no batch file), then a file of 5 rows (the run that finds
   one), and then no file and zero rows (the run that finds two). *)
BatchWindowing ==
  lastExport.status # "none" =>
    LET found == Cardinality(DOMAIN lastExport.decksBefore)
        name == deckFileName(lastExport.tier, lastExport.batchNum)
        wrote(n) == /\ lastExport.status = "wrote"
                    /\ Len(lastExport.batch) = n
                    /\ name \in DOMAIN decks \ DOMAIN lastExport.decksBefore
                    /\ Len(rowsOf(decks, name)) = n
    IN  CASE found = 0 -> wrote(DefaultBatch)
          [] found = 1 -> wrote(WindowEntries - DefaultBatch)
          [] OTHER -> /\ lastExport.status = "empty"
                      /\ Len(lastExport.batch) = 0
                      /\ decks = lastExport.decksBefore

(* C2: no lemma is written to two different batch files of one tier. *)
NoLemmaInTwoBatches ==
  \A f \in DOMAIN written : \A g \in DOMAIN written :
    f # g /\ f.tier = g.tier =>
      lemmasIn(written[f]) \cap lemmasIn(written[g]) = {}

(* C3: an export run writes exactly the first B of the tier's entries
   that no earlier batch file of the tier holds, B the batch size, in the
   order of descending count and then descending Zipf score; the rows of
   the file are in that order. *)
ExportWritesFirstUnexported ==
  lastExport.status \in {"wrote", "empty"} =>
    LET run == lastExport
        name == deckFileName(run.tier, run.batchNum)
        done == UNION {lemmasIn(run.writtenBefore[f]) :
                         f \in deckFilesOf(run.writtenBefore, run.tier)}
        due == sortBy(filterSeq(run.all,
                                {i \in DOMAIN run.all :
                                   /\ run.all[i].tier = run.tier
                                   /\ run.all[i].lemma \notin done}),
                      "byCountThenZipf")
        expected == slice(due, 0, run.batchSize)
    IN  /\ run.batch = expected
        /\ Len(expected) > 0 =>
             /\ run.status = "wrote"
             /\ Len(rowsOf(decks, name)) = Len(expected)
             /\ \A i \in DOMAIN expected :
                  split(rowsOf(decks, name)[i], "\t")[1] = expected[i].word

(* C4: batch files are append-only: every file that exists before a step
   exists after it under the same name with the same content, so a run
   only ever creates a file whose name did not exist. *)
BatchFilesAppendOnly ==
  [][\A f \in DOMAIN decks : f \in DOMAIN decks' /\ decks'[f] = decks[f]]_vars

AppendedToTier ==
  /\ lastExport.status = "wrote"
  /\ deckFilesOf(lastExport.decksBefore, lastExport.tier) # {}
  /\ DOMAIN decks # DOMAIN lastExport.decksBefore

(* C5: the batch files of every tier are numbered 1..n without gaps, and
   a newly written file has the number of files the tier had, plus one. *)
BatchFilesNumbered ==
  /\ \A t \in Tiers :
       {numberOf(f.num) : f \in deckFilesOf(decks, t)}
         = 1..Cardinality(deckFilesOf(decks, t))
  /\ lastExport.status = "wrote" =>
       /\ lastExport.batchNum
            = Cardinality(deckFilesOf(lastExport.decksBefore,
                                      lastExport.tier)) + 1
       /\ DOMAIN decks \ DOMAIN lastExport.decksBefore
            = {deckFileName(lastExport.tier, lastExport.batchNum)}

TwoFilesInTier ==
  /\ lastExport.status = "wrote"
  /\ lastExport.batchNum = 2
  /\ Cardinality(deckFilesOf(decks, lastExport.tier)) = 2

(* C6: an export run whose window is empty writes no file and leaves the
   deck files and their contents as they were; a file is written only
   for a window of at least one entry. *)
EmptyWindowWritesNothing ==
  lastExport.status # "none" =>
    /\ Len(lastExport.batch) = 0 => decks = lastExport.decksBefore
    /\ decks # lastExport.decksBefore => Len(lastExport.batch) > 0

EmptyWindowAfterExports ==
  /\ lastExport.status = "empty"
  /\ Len(lastExport.all) > 0
  /\ lastExport.batchSize > 0
  /\ DOMAIN lastExport.decksBefore # {}
  /\ decks = lastExport.decksBefore

(* ------------------------------------------------------------------ *)
(* Properties of the classifier                                        *)
(* ------------------------------------------------------------------ *)

(* C7: decideTier returns 1 if (rank of the level >= rank of B2 and the
   score < 4) or the count >= 5, otherwise 2 if the score < 5, otherwise
   3, with ranks A1..C2 = 0..5 and a missing count taken as 0; so
   C1/3.0/0 gives 1, A1/4.5/1 gives 2, A1/6.0/0 gives 3 and a count of 5
   gives 1 whatever the level and the score.  Scores are times ten. *)
DecideTierRule ==
  probe.fn = "decideTier" /\ probe.result # <<>> =>
    LET level == probe.args.level
        score == probe.args.zipf
        count == IF probe.args.count = <<>> THEN 0 ELSE probe.args.count[1]
        rank == [l \in Levels |->
                   CASE l = "A1" -> 0 [] l = "A2" -> 1 [] l = "B1" -> 2
                     [] l = "B2" -> 3 [] l = "C1" -> 4 [] l = "C2" -> 5]
        tier == probe.result[1]
    IN  /\ tier = IF (rank[level] >= rank["B2"] /\ score < 40) \/ count >= 5
                  THEN 1
                  ELSE IF score < 50 THEN 2 ELSE 3
        /\ level = "C1" /\ score = 30 /\ count = 0 => tier = 1
        /\ level = "A1" /\ score = 45 /\ count = 1 => tier = 2
        /\ level = "A1" /\ score = 60 /\ count = 0 => tier = 3
        /\ count = 5 => tier = 1

CountFiveDecided ==
  /\ probe.fn = "decideTier"
  /\ probe.args = [level |-> "A1", zipf |-> 60, count |-> <<5>>]
  /\ probe.result = <<1>>

(* ------------------------------------------------------------------ *)
(* Properties of ingest                                                *)
(* ------------------------------------------------------------------ *)

(* The raw words ingest chooses a lemma for: those past the blank test. *)
lemmatized == {i \in DOMAIN rawWords : ~isBlank(rawWords[i].word)}

entriesOf(lemma) ==
  {e \in DOMAIN cleanedFile.data : cleanedFile.data[e].lemma = lemma}

duplicatesOf(lemma) ==
  {d \in DOMAIN loggedDuplicateLemmas : loggedDuplicateLemmas[d] = lemma}

(* C8: the artifact an ingest run writes holds at most one CleanEntry per
   lemma. *)
OneEntryPerLemma ==
  cleanedFile.exists =>
    \A e \in DOMAIN cleanedFile.data : \A f \in DOMAIN cleanedFile.data :
      e # f => cleanedFile.data[e].lemma # cleanedFile.data[f].lemma

RepeatedLemmaKeptOnce ==
  /\ pc = "finished"
  /\ \E i \in lemmatized : \E j \in lemmatized :
       /\ i < j
       /\ lemmaOf(rawWords[i]) = lemmaOf(rawWords[j])
       /\ entriesOf(lemmaOf(rawWords[i])) # {}

(* C9, as stated: for every lemma chosen for k >= 2 raw words of the
   input, exactly one CleanEntry with that lemma is written and the
   duplicate counter rises by k - 1 on its account. *)
DuplicatesCountedForEveryLemma ==
  pc = "finished" =>
    \A i \in lemmatized :
      LET lemma == lemmaOf(rawWords[i])
          k == Cardinality({j \in lemmatized : lemmaOf(rawWords[j]) = lemma})
      IN  k >= 2 => /\ Cardinality(entriesOf(lemma)) = 1
                    /\ Cardinality(duplicatesOf(lemma)) = k - 1

(* The raw words that reach the seen-lemma test with a lemma that is
   neither a stop word nor a known word. *)
admitted ==
  {i \in lemmatized : /\ toLowerCase(rawWords[i].word) \notin stop
                      /\ lemmaOf(rawWords[i]) \notin stop \cup known}

(* C9, amended: for every lemma that is neither a stop word nor a known
   word and is chosen for k >= 2 raw words whose lowercased raw form is
   no stop word, exactly one CleanEntry with that lemma is written and
   the duplicate counter rises by k - 1 on its account; the counter is
   the sum of these rises. *)
DuplicatesCounted ==
  pc = "finished" =>
    /\ \A i \in admitted :
         LET lemma == lemmaOf(rawWords[i])
             k == Cardinality({j \in admitted : lemmaOf(rawWords[j]) = lemma})
         IN  k >= 2 => /\ Cardinality(entriesOf(lemma)) = 1
                       /\ Cardinality(duplicatesOf(lemma)) = k - 1
    /\ skippedDup = Len(loggedDuplicateLemmas)
    /\ \A d \in DOMAIN loggedDuplicateLemmas :
         \E i \in admitted : lemmaOf(rawWords[i]) = loggedDuplicateLemmas[d]

LemmaChosenThrice ==
  /\ pc = "finished"
  /\ \E i \in admitted :
       /\ Cardinality({j \in admitted :
                         lemmaOf(rawWords[j]) = lemmaOf(rawWords[i])}) = 3
       /\ Cardinality(duplicatesOf(lemmaOf(rawWords[i]))) = 2
  /\ skippedDup = 2

(* Why a raw word without an entry was left out: its raw form or its
   lemma is a stop word, an earlier raw word has the entry of its lemma,
   or its lemma is a known word. *)
excusedAt(i) ==
  \/ toLowerCase(rawWords[i].word) \in stop
  \/ lemmaOf(rawWords[i]) \in stop
  \/ \E j \in 1..(i - 1) :
       /\ processedEntries[j] # <<>>
       /\ processedEntries[j][1].lemma = lemmaOf(rawWords[i])
  \/ lemmaOf(rawWords[i]) \in known

entriesClean ==
  \A e \in DOMAIN cleanedFile.data :
    /\ cleanedFile.data[e].lemma \notin stop
    /\ toLowerCase(cleanedFile.data[e].word) \notin stop
    /\ cleanedFile.data[e].lemma \notin known

(* C10, as stated: no CleanEntry has a stop-word lemma, a stop-word raw
   form or a known lemma, and every raw word with a non-empty word that
   is left out is left out as a stop word (raw form or lemma), as a lemma
   seen earlier in the input, or as a known lemma. *)
ExclusionsOfNonEmptyWords ==
  pc = "finished" =>
    /\ entriesClean
    /\ \A i \in DOMAIN rawWords :
         Len(rawWords[i].word) > 0 /\ processedEntries[i] = <<>>
           => excusedAt(i)

(* C10, amended: no CleanEntry has a stop-word lemma, a stop-word raw
   form or a known lemma, and every raw word whose word is not blank
   (non-empty after trimming) that is left out is left out as a stop word
   (raw form or lemma), as a lemma seen earlier in the input, or as a
   known lemma. *)
ExclusionsOfNonBlankWords ==
  pc = "finished" =>
    /\ entriesClean
    /\ \A i \in lemmatized : processedEntries[i] = <<>> => excusedAt(i)

KeptAndLeftOut ==
  /\ pc = "finished"
  /\ Len(cleanedFile.data) > 0
  /\ \E i \in lemmatized :
       processedEntries[i] = <<>> /\ lemmaOf(rawWords[i]) \in known
  /\ \E i \in lemmatized :
       processedEntries[i] = <<>> /\ lemmaOf(rawWords[i]) \in stop

(* C11: ingest run twice on the same raw input, with the same reference
   data and lookup results, writes the same CleanEntries both times. *)
IngestAgainSameEntries ==
  probe.fn = "ingest" =>
    \A i \in DOMAIN probe.result : \A j \in DOMAIN probe.result :
      Range(probe.result[i]) = Range(probe.result[j])

(* ------------------------------------------------------------------ *)
(* Properties of the lemma chooser                                     *)
(* ------------------------------------------------------------------ *)

(* C12: for every non-empty lowercased raw word and every pair of
   reference maps, chooseLemma returns a non-empty string. *)
LemmaNonEmpty ==
  probe.fn = "chooseLemma" /\ probe.result # <<>> =>
    Len(probe.result[1]) > 0

EmptyReductionPassedOver ==
  /\ probe.fn = "chooseLemma"
  /\ probe.args.noun = <<>>
  /\ probe.args.verb = <<>>
  /\ probe.args.adjective = <<>>
  /\ probe.result = <<probe.args.w>>

(* C13: chooseLemma returns the first of noun reduction, verb reduction,
   adjective reduction, original word that is a key of the level map or
   of the frequency map; if none is a key, the first reduction that
   differs from the word, and the word when no reduction differs. *)
LemmaFirstKeyedCandidate ==
  probe.fn = "chooseLemma" /\ probe.result # <<>> =>
    LET a == probe.args
        cands == <<a.noun, a.verb, a.adjective, a.w>>
        keyed == {i \in 1..4 : cands[i] \in DOMAIN a.cefr \cup DOMAIN a.zipf}
        differing == {i \in 1..3 : cands[i] # a.w}
        least(S) == CHOOSE i \in S : \A j \in S : i <= j
    IN  probe.result[1] =
          IF keyed # {} THEN cands[least(keyed)]
          ELSE IF differing # {} THEN cands[least(differing)]
          ELSE a.w

(* ------------------------------------------------------------------ *)
(* Properties of the enrichment                                        *)
(* ------------------------------------------------------------------ *)

columnsOf(row) == split(row, "\t")

(* The lookup returns no senses or fails: it throws, or a sense it
   yields lacks a field. *)
lookupFailed(answer) ==
  \/ answer.throws
  \/ answer.senses = <<>>
  \/ \E k \in DOMAIN answer.senses : answer.senses[k].lacks # {}

definitionsOf(senses) == {definitionOf(senses[k]) : k \in DOMAIN senses}

rowAsClaimed(row, answer) ==
  IF lookupFailed(answer)
  THEN columnsOf(row)[4] = <<>> /\ columnsOf(row)[6] = <<>>
  ELSE columnsOf(row)[4] \in definitionsOf(answer.senses)

rowsAsClaimed(rows, batch) ==
  /\ Len(rows) = Len(batch)
  /\ \A i \in DOMAIN batch :
       rowAsClaimed(rows[i], lookupAsync(wordnet, batch[i].lemma))

(* C14: when an export has written its batch, the file is there with one
   row per entry; the row of every entry whose lookup returned no
   senses, threw or yielded an unusable sense has an empty definition
   and an empty synonym field, and the row of every other entry carries
   a definition of its lemma. *)
FailedLookupsLeaveRowsBare ==
  lastExport.status = "wrote" =>
    /\ deckFileName(lastExport.tier, lastExport.batchNum) \in DOMAIN decks
    /\ rowsAsClaimed(rowsOf(decks, deckFileName(lastExport.tier,
                                                 lastExport.batchNum)),
                     lastExport.batch)

(* ------------------------------------------------------------------ *)
(* Properties of the choice of a sense                                 *)
(* ------------------------------------------------------------------ *)

(* best is one of the senses at the places, with the highest frequency
   count among them. *)
topAmong(results, places, best) ==
  /\ \E i \in places : results[i] = best
  /\ \A i \in places : freqOf(results[i]) <= freqOf(best)

sensePickedFrom(results, desiredPos, best) ==
  IF Len(results) = 0 THEN best = <<>>
  ELSE /\ best # <<>>
       /\ IF sensesOfPos(results, desiredPos) # {}
          THEN topAmong(results, sensesOfPos(results, desiredPos), best[1])
          ELSE topAmong(results, DOMAIN results, best[1])

(* C15: pickBestSense returns a sense of the expected part of speech
   when there is one, with the highest frequency count among those;
   when none matches, a sense with the highest frequency count of all;
   and no sense for an empty list. *)
BestSenseRule ==
  (probe.fn = "pickBestSense" /\ probe.result # <<>>) =>
    sensePickedFrom(probe.args.results, probe.args.desiredPos,
                    probe.result[1])

(* A sense of the expected part of speech was returned although another
   sense has a higher frequency count. *)
MatchingSensePreferred ==
  /\ probe.fn = "pickBestSense"
  /\ probe.result # <<>>
  /\ probe.result[1] # <<>>
  /\ mapWordNetPosToStandard(probe.result[1][1].pos) = probe.args.desiredPos
  /\ \E i \in DOMAIN probe.args.results :
       freqOf(probe.args.results[i]) > freqOf(probe.result[1][1])

(* The synonym is what the clean-up makes of a synonym of a sense with
   the part of speech. *)
synonymOfPos(syn, senses, pos) ==
  \E k \in sensesOfPos(senses, pos) :
    \E n \in DOMAIN senses[k].synonyms :
      cleanSynonym(senses[k].synonyms[n]) = syn

synonymsAsClaimed(syn, senses, pos, lemma) ==
  /\ Len(syn) <= 3
  /\ \A m, n \in DOMAIN syn : m # n => syn[m] # syn[n]
  /\ \A n \in DOMAIN syn :
       /\ syn[n] # <<>>
       /\ toLowerCase(syn[n]) = syn[n]
       /\ "_" \notin Range(syn[n])
       /\ syn[n] # lemma
       /\ synonymOfPos(syn[n], senses, pos)

(* The definition's text before its first semicolon. *)
firstClause(def) == split(def, ";")[1]

enrichedAsClaimed(data, senses, chosen, lemma, trimmed) ==
  /\ synonymsAsClaimed(data.syn, senses,
                       mapWordNetPosToStandard(chosen.pos), lemma)
  /\ data.def = IF trimmed THEN trim(firstClause(chosen.def))
                ELSE firstClause(chosen.def)

batchEnrichedAsClaimed(batch, results, trimmed) ==
  \A i \in DOMAIN batch :
    ~lookupFailed(lookupAsync(wordnet, batch[i].lemma)) =>
      enrichedAsClaimed(
        results[i], lookupAsync(wordnet, batch[i].lemma).senses,
        pickBestSense(lookupAsync(wordnet, batch[i].lemma).senses,
                      batch[i].pos)[1],
        batch[i].lemma, trimmed)

(* C16: every enriched entry has at most three synonyms, pairwise
   distinct, each lowercase, non-empty, free of underscores, different
   from the lemma and taken from a sense with the part of speech of the
   chosen sense; its definition is the text of the chosen sense's
   definition before the first semicolon. *)
EnrichmentFirstClause ==
  lastExport.status = "wrote" =>
    batchEnrichedAsClaimed(lastExport.batch, lastExport.wordNetResults, FALSE)

(* C16 as amended: the same, the definition being that text with the
   whitespace around it removed. *)
EnrichmentFirstClauseTrimmed ==
  lastExport.status = "wrote" =>
    batchEnrichedAsClaimed(lastExport.batch, lastExport.wordNetResults, TRUE)

(* An entry was written with three synonyms out of more, and one with a
   definition cut at a semicolon that follows a blank. *)
SynonymsCutAndClauseTrimmed ==
  /\ lastExport.status = "wrote"
  /\ \E i \in DOMAIN lastExport.batch :
       /\ lastExport.batch[i].lemma = w_sun
       /\ Len(lastExport.wordNetResults[i].syn) = 3
  /\ \E i \in DOMAIN lastExport.batch :
       /\ lastExport.batch[i].lemma = w_pig
       /\ lastExport.batch[i].pos = "noun"
       /\ lastExport.wordNetResults[i].def = <<"swine">>

(* ------------------------------------------------------------------ *)
(* Properties of the concurrent lookups                                *)
(* ------------------------------------------------------------------ *)

(* The row is the row of the entry: its word first, then the definition
   and the synonyms of the entry's own lookup. *)
rowOfEntry(columns, entry, data) ==
  /\ columns[1] = entry.word
  /\ columns[4] = data.def
  /\ columns[6] = join(data.syn, <<",", " ">>)

rowsInBatchOrder(rows, batch) ==
  /\ Len(rows) = Len(batch)
  /\ \A i \in DOMAIN batch :
       rowOfEntry(columnsOf(rows[i]), batch[i],
                  enrichAnswer(lookupAsync(wordnet, batch[i].lemma),
                               batch[i]))

(* C17: whatever the order the lookups of a batch completed in, row i of
   the file written carries the word of entry i of the batch list and
   the definition and synonyms looked up for that entry. *)
RowsFollowBatchOrder ==
  lastExport.status = "wrote" =>
    rowsInBatchOrder(rowsOf(decks, deckFileName(lastExport.tier,
                                                lastExport.batchNum)),
                     lastExport.batch)

(* A batch was written whose lookups completed last entry first, the
   first and the last entry having different definitions. *)
LookupsCompletedBackwards ==
  /\ lastExport.status = "wrote"
  /\ Len(lastExport.batch) >= 2
  /\ Len(lastExport.settled) = Len(lastExport.batch)
  /\ \A i \in DOMAIN lastExport.settled :
       lastExport.settled[i] = Len(lastExport.batch) + 1 - i
  /\ lastExport.wordNetResults[1].def
       # lastExport.wordNetResults[Len(lastExport.batch)].def

(* ------------------------------------------------------------------ *)
(* Properties of the writes                                            *)
(* ------------------------------------------------------------------ *)

allTasksDone(tasks) == \A i \in DOMAIN tasks : tasks[i] = "done"

(* The step writes or appends to one of the files. *)
ingestOutputWritten ==
  <<cleanedFile, stopLogFile, dupLogFile>>'
    # <<cleanedFile, stopLogFile, dupLogFile>>
logOrCacheWritten == <<mismatchLog, zipfFile>>' # <<mismatchLog, zipfFile>>
deckWritten == decks' # decks

ingestTasksOver == pc = "ingest" /\ allTasksDone(taskState)
exportTasksOver == exportRun.active /\ allTasksDone(exportRun.tasks)

(* After the step the failed run has left the files as it found them. *)
outputsAsBefore ==
  /\ cleanedFile' = filesBefore'.cleanedFile
  /\ stopLogFile' = filesBefore'.stopLogFile
  /\ dupLogFile' = filesBefore'.dupLogFile
  /\ decks' = filesBefore'.decks
logAndCacheAsBefore ==
  /\ mismatchLog' = filesBefore'.mismatchLog
  /\ zipfFile' = filesBefore'.zipfFile

outputsHeldBack ==
  /\ ingestOutputWritten => ingestTasksOver
  /\ deckWritten => exportTasksOver
  /\ pc' = "failed" => outputsAsBefore
  /\ lastExport'.status = "failed" => decks' = decks

(* C18: no step of an ingest or an export run writes or appends to a
   file unless every per-word task of the run has finished, and a run
   that has failed has left every file as it found it. *)
NoWriteBeforeTasksEnd ==
  [][/\ outputsHeldBack
     /\ logOrCacheWritten => ingestTasksOver
     /\ pc' = "failed" => logAndCacheAsBefore]_vars

(* C18 as amended: the same of the artifact, the two skip lists and the
   deck files; the mismatch log and the frequency cache are left out. *)
NoOutputBeforeTasksEnd == [][outputsHeldBack]_vars

(* A run has failed after one of its tasks appended to the mismatch log,
   with an artifact of an earlier run in place. *)
FailedAfterLogAppend ==
  /\ pc = "failed"
  /\ cleanedFile.exists
  /\ cleanedFile = filesBefore.cleanedFile
  /\ mismatchLog # filesBefore.mismatchLog

(* C20: once the task of an element that cannot be processed has run, or
   the input file did not parse, the ingest run has ended in an error,
   and the artifact is the one the run found. *)
MalformedInputFails ==
  /\ (\E i \in DOMAIN rawWords :
        cannotProcess(rawWords[i]) /\ taskState[i] = "done")
       => pc = "failed"
  /\ pc = "failed" => cleanedFile = filesBefore.cleanedFile

(* A run over an input with a number for a word has failed and the
   artifact of the run before it is still there. *)
FailedOnNumberWord ==
  /\ pc = "failed"
  /\ \E i \in DOMAIN rawWords : outcome[i] = "threw"
  /\ cleanedFile.exists
  /\ Len(cleanedFile.data) > 0

(* ------------------------------------------------------------------ *)
(* Properties of the rows                                              *)
(* ------------------------------------------------------------------ *)

tagOf(entry, tier) ==
  <<"Tier", ToString(tier), ".", entry.level, ".", "Zipf", " ">>
    \o toFixed2(entry.zipf)

(* The first column is the word followed by its part of speech. *)
wordWithPos(column, entry) ==
  /\ Len(column) > Len(entry.word)
  /\ SubSeq(column, 1, Len(entry.word)) = entry.word
  /\ \E n \in DOMAIN column : column[n] = entry.pos \/ column[n] = "N/A"

sixColumns(columns, entry, data, tier) ==
  /\ Len(columns) = 6
  /\ wordWithPos(columns[1], entry)
  /\ columns[2] = <<>>
  /\ columns[3] = data.def
  /\ columns[4] = slice(entry.example, 0, 120)
  /\ columns[5] = join(data.syn, <<",", " ">>)
  /\ columns[6] = tagOf(entry, tier)

rowsOfSixColumns(rows, batch, results, tier) ==
  /\ Len(rows) = Len(batch)
  /\ \A i \in DOMAIN batch :
       sixColumns(columnsOf(rows[i]), batch[i], results[i], tier)

(* C19: a batch file written by export has one row per entry of the
   batch, each of exactly six tab-separated columns: the word with its
   part of speech, a blank, the definition, the example cut to 120
   characters, the synonyms joined by commas, the tag of tier, level and
   frequency. *)
RowsHaveSixColumns ==
  lastExport.status = "wrote" =>
    rowsOfSixColumns(rowsOf(decks, deckFileName(lastExport.tier,
                                                lastExport.batchNum)),
                     lastExport.batch, lastExport.wordNetResults,
                     lastExport.tier)

(* ------------------------------------------------------------------ *)
(* Properties of the reference files                                   *)
(* ------------------------------------------------------------------ *)

unusable(file) == ~file.exists \/ ~file.parses

(* The run went on with an empty substitute for every file it could not
   use: nothing left out by an empty list, level B2 from an empty level
   map, score 3.5 from an empty frequency map. *)
emptySubstitutes(entries) ==
  /\ ~reference.stop.exists =>
       \A i \in DOMAIN outcome : outcome[i] \notin {"stop", "stopLemma"}
  /\ ~reference.known.exists =>
       \A i \in DOMAIN outcome : outcome[i] # "known"
  /\ unusable(reference.cefr) =>
       \A k \in DOMAIN entries : entries[k].level = "B2"
  /\ ~zipfFile.exists =>
       \A k \in DOMAIN entries : entries[k].zipf = DefaultZipf

(* C21: whichever reference files are missing or do not parse, ingest
   does not fail; when it ends every raw word has been processed, the
   artifact is written, and an empty substitute stood for each such
   file. *)
ReferenceFilesOptional ==
  /\ pc # "failed"
  /\ pc = "finished" =>
       /\ \A i \in DOMAIN taskState : taskState[i] = "done"
       /\ cleanedFile.exists
       /\ emptySubstitutes(cleanedFile.data)

(* ------------------------------------------------------------------ *)
(* Properties of export without an artifact                            *)
(* ------------------------------------------------------------------ *)

(* The artifact is missing, or is not a non-empty array. *)
noArtifact(file) ==
  \/ ~file.exists
  \/ "array" \in DOMAIN file
  \/ Len(file.data) = 0

(* C22: while the artifact is missing or is not a non-empty array, no
   step creates or changes a deck file or starts the lookups of an
   export, and an export run that is made ends as aborted. *)
ExportAbortsWithoutArtifact ==
  [][noArtifact(cleanedFile) =>
       /\ decks' = decks
       /\ ~exportRun'.active
       /\ lastExport' # lastExport =>
            lastExport'.status \in {"none", "aborted"}]_vars

(* An export has aborted on an artifact that is an empty array, with
   deck files of earlier runs in place. *)
AbortedWithDecksInPlace ==
  /\ lastExport.status = "aborted"
  /\ cleanedFile.exists
  /\ decks # <<>>
  /\ decks = lastExport.decksBefore

(* ------------------------------------------------------------------ *)
(* Properties of the exclusion counts                                  *)
(* ------------------------------------------------------------------ *)

leftOutAsStop ==
  {i \in lemmatized : \/ toLowerCase(rawWords[i].word) \in stop
                      \/ lemmaOf(rawWords[i]) \in stop}

leftOutAsSeen ==
  {i \in lemmatized \ leftOutAsStop :
     \E j \in 1..(i - 1) :
       /\ processedEntries[j] # <<>>
       /\ processedEntries[j][1].lemma = lemmaOf(rawWords[i])}

leftOutAsKnown ==
  {i \in lemmatized \ leftOutAsStop : lemmaOf(rawWords[i]) \in known}

stopAndSeenCounted ==
  /\ ingestCounts.stop = Cardinality(leftOutAsStop)
  /\ ingestCounts.duplicates = Cardinality(leftOutAsSeen)

(* C23: at the end of an ingest run the stop-word count is the number of
   raw words left out as stop words (by raw form or by lemma), the
   duplicate count is the number left out as lemmas seen before, and the
   run has a known-word count, which is the number of raw words left out
   because their lemma is a known word. *)
EveryExclusionCounted ==
  pc = "finished" =>
    /\ stopAndSeenCounted
    /\ "known" \in DOMAIN ingestCounts
    /\ ingestCounts.known = Cardinality(leftOutAsKnown)

(* ------------------------------------------------------------------ *)
(* Properties of the exclusion set                                     *)
(* ------------------------------------------------------------------ *)

lemmasWrittenTo(files, tier) ==
  UNION {lemmasIn(files[f]) : f \in deckFilesOf(files, tier)}

(* C24: the exclusion set an export run for a tier builds from the
   tier's batch files is the set of the lemmas of the CleanEntries that
   earlier runs wrote to these files. *)
ExclusionSetIsLemmasWritten ==
  lastExport.status \in {"wrote", "empty", "failed"} =>
    lastExport.exported =
      lemmasWrittenTo(lastExport.writtenBefore, lastExport.tier)

(* ------------------------------------------------------------------ *)
(* Properties of the interleaving of ingest's tasks                    *)
(* ------------------------------------------------------------------ *)

atLookup == {i \in DOMAIN taskState : taskState[i] = "lookup"}

(* The raw words that are the earliest of their lemma among those that
   reach the seen-lemma test with a lemma that is no known word. *)
earliestOfLemma ==
  {i \in admitted :
     \A j \in admitted :
       j < i => lemmaOf(rawWords[j]) # lemmaOf(rawWords[i])}

wordsOf(entries) == [k \in DOMAIN entries |-> entries[k].word]

(* Every lemma marked as seen belongs to a task that has started, and
   to exactly one that got past the seen-lemma test. *)
markedOnce ==
  \A lemma \in seen :
    Cardinality({i \in DOMAIN outcome :
                   /\ outcome[i] = "entry"
                   /\ lemmaOf(rawWords[i]) = lemma}) = 1

(* No task has started before a task of an earlier raw word. *)
startedInInputOrder ==
  \A i \in DOMAIN taskState : \A j \in DOMAIN taskState :
    i < j /\ taskState[j] # "queued" => taskState[i] # "queued"

(* C25: however the lookups of ingest's tasks interleave, at most 8
   tasks are at their lookup, the tasks test and mark the seen lemmas in
   input order, every marked lemma was marked by exactly one task, and
   the artifact written holds, in input order, the entry of the earliest
   raw word of each lemma among the raw words that are not left out as
   stop words or known words. *)
EarliestWordKeptInOrder ==
  /\ Cardinality(atLookup) <= 8
  /\ startedInInputOrder
  /\ pc = "ingest" => markedOnce
  /\ pc = "finished" =>
       /\ wordsOf(cleanedFile.data) =
            wordsOf(filterSeq(rawWords, earliestOfLemma))
       /\ \A k \in DOMAIN cleanedFile.data :
            cleanedFile.data[k].lemma =
              lemmaOf(filterSeq(rawWords, earliestOfLemma)[k])

(* A run of ten words has ended: the ninth word waited for the limiter
   and was left out for the lemma the first word had marked, the tenth
   one was kept behind the eight. *)
QueuedWordFoundLemmaMarked ==
  /\ pc = "finished"
  /\ Len(rawWords) > 8
  /\ outcome[9] = "dup"
  /\ lemmaOf(rawWords[9]) = lemmaOf(rawWords[1])
  /\ rawWords[9].word # rawWords[1].word
  /\ outcome[10] = "entry"
  /\ Len(cleanedFile.data) = 9

(* ------------------------------------------------------------------ *)
(* Properties of repeated exports                                      *)
(* ------------------------------------------------------------------ *)

(* The entries of the artifact that are of the tier and in none of the
   tier's batch files. *)
leftUnwritten(tier) ==
  {i \in DOMAIN cleanedFile.data :
     /\ cleanedFile.data[i].tier = tier
     /\ \A f \in deckFilesOf(written, tier) :
          \A k \in DOMAIN written[f] : written[f][k] # cleanedFile.data[i]}

(* C26: with the artifact unchanged and one batch size of at least 1,
   an export run for a tier writes no file only when every entry of the
   tier is in a batch file of the tier (so repeated runs come to write
   every entry). *)
ExportStopsWhenAllWritten ==
  lastExport.status = "empty" /\ lastExport.batchSize >= 1 =>
    leftUnwritten(lastExport.tier) = {}

(* ------------------------------------------------------------------ *)
(* Properties of the defaults of ingest                                *)
(* ------------------------------------------------------------------ *)

(* The frequency map has a score under the word. *)
scored(w) == w \in DOMAIN zipfMap /\ zipfMap[w] # JsonNull

defaultsAsClaimed(r, e) ==
  /\ (/\ e.lemma \notin DOMAIN ensureCefrMap
      /\ ~scored(toLowerCase(r.word))
      /\ ~scored(e.lemma)) =>
       /\ e.level = "B2"
       /\ e.zipf = 35
       /\ countOf(r) < 5 => e.tier = 1
  /\ (scored(toLowerCase(r.word)) /\ scored(e.lemma)) =>
       e.zipf = zipfMap[toLowerCase(r.word)]

(* C27: an entry whose lemma is not in the level map and whose raw word
   and lemma have no frequency score has level B2 and score 3.5, and
   tier 1 when its count is below 5; an entry whose raw word and lemma
   both have a score has the raw word's score. *)
UnscoredWordIsTierOne ==
  \A i \in DOMAIN processedEntries :
    processedEntries[i] # <<>> =>
      defaultsAsClaimed(rawWords[i], processedEntries[i][1])

(* ------------------------------------------------------------------ *)
(* Properties of export across tiers                                   *)
(* ------------------------------------------------------------------ *)

(* The deck files of one tier only. *)
tierFiles(files, tier) ==
  [f \in {g \in DOMAIN files : g.tier = tier} |-> files[f]]

(* The step leaves the deck files of the other tiers in place and as
   they are. *)
otherTiersKept(tier) ==
  \A f \in DOMAIN decks \cup DOMAIN decks' :
    f.tier # tier =>
      /\ f \in DOMAIN decks
      /\ f \in DOMAIN decks'
      /\ decks'[f] = decks[f]

(* The run's exclusion set and batch number are those it would have
   computed with the tier's files alone in the directory. *)
ownTierRead(run) ==
  /\ run.exported = exportedLemmas(tierFiles(decks, run.tier), run.tier)
  /\ run.batchNum = nextBatchId(tierFiles(decks, run.tier), run.tier)

tiersApart ==
  \A f \in DOMAIN written : \A g \in DOMAIN written :
    f.tier # g.tier => lemmasIn(written[f]) \cap lemmasIn(written[g]) = {}

(* C28: an export run for a tier leaves the deck files of the other
   tiers and the artifact as they are and computes its exclusion set
   and batch number from the tier's files alone; while the artifact is
   the one the only ingest run wrote, no lemma is in the batch files of
   two tiers. *)
ExportKeepsToItsTier ==
  [][(lastExport' # lastExport /\ lastExport'.status # "none") =>
       /\ otherTiersKept(lastExport'.tier)
       /\ cleanedFile' = cleanedFile
       /\ lastExport'.status # "aborted" => ownTierRead(lastExport')
       /\ ingests <= 1 => tiersApart']_vars

(* After one ingest run, batch files of two tiers are in place and a run
   for one tier has just written a file next to those of the other. *)
FilesOfTwoTiers ==
  /\ ingests = 1
  /\ lastExport.status = "wrote"
  /\ \E f \in DOMAIN lastExport.decksBefore : f.tier # lastExport.tier
  /\ \E g \in DOMAIN decks : g \notin DOMAIN lastExport.decksBefore

(* ------------------------------------------------------------------ *)
(* Properties of the outcomes of the raw words                         *)
(* ------------------------------------------------------------------ *)

entriesWritten == Len(cleanedFile.data)

accountedFor == entriesWritten + skippedStop + skippedDup

(* Every raw word took one of the five returns, and the entries are
   those of the words that took the last one. *)
fiveOutcomes ==
  \A i \in DOMAIN rawWords :
    /\ outcome[i] \in {"empty", "stop", "stopLemma", "dup", "known", "entry"}
    /\ outcome[i] = "entry" <=> processedEntries[i] # <<>>

knownNeverMarked ==
  \A lemma \in known :
    /\ lemma \notin seen
    /\ \A d \in DOMAIN loggedDuplicateLemmas :
         loggedDuplicateLemmas[d] # lemma

(* C29, as stated: at the end of an ingest run every raw word has one
   of the five outcomes; entries written + stop count + duplicate count
   is at most the number of raw words and equals it exactly when no raw
   word is empty or has a known lemma; a known lemma is never marked as
   seen nor counted as a duplicate. *)
OutcomesOfEmptyAndKnown ==
  pc = "finished" =>
    /\ fiveOutcomes
    /\ accountedFor <= Len(rawWords)
    /\ accountedFor = Len(rawWords) <=>
         /\ \A i \in DOMAIN rawWords : Len(rawWords[i].word) > 0
         /\ \A i \in lemmatized : lemmaOf(rawWords[i]) \notin known
    /\ knownNeverMarked

(* C29, amended: the same, with equality exactly when no raw word is
   blank (no word, an empty one or only whitespace) and none is left
   out as a known lemma, which a raw word that is counted as a stop
   word is not, whatever its lemma. *)
OutcomesOfBlankAndKnown ==
  pc = "finished" =>
    /\ fiveOutcomes
    /\ accountedFor <= Len(rawWords)
    /\ accountedFor = Len(rawWords) <=>
         /\ lemmatized = DOMAIN rawWords
         /\ leftOutAsKnown = {}
    /\ knownNeverMarked

(* A run has ended in which a known lemma came up twice and went
   uncounted, next to a word counted as a stop word whose lemma is a
   known word. *)
KnownTwiceAndStopWithKnownLemma ==
  /\ pc = "finished"
  /\ Cardinality(leftOutAsKnown) = 2
  /\ \E i \in leftOutAsStop : lemmaOf(rawWords[i]) \in known
  /\ skippedDup = 0
  /\ accountedFor = 1

(* ------------------------------------------------------------------ *)
(* Properties of the noun override                                     *)
(* ------------------------------------------------------------------ *)

(* The list pickBestSense sorts: the senses of the desired part of
   speech when there are any, else all of them. *)
candidateSenses(results, desiredPos) ==
  IF samePosSenses(results, desiredPos) # <<>>
  THEN samePosSenses(results, desiredPos) ELSE results

(* pickBestSense without its override step: the head of the sorted
   list. *)
headOfSorted(results, desiredPos) ==
  IF Len(results) = 0 THEN <<>>
  ELSE <<sortBy(candidateSenses(results, desiredPos), "byFreqCnt")[1]>>

(* The override step is entered: a noun is desired and the head of the
   sorted list is no noun. *)
overrideEntered(results, desiredPos) ==
  /\ desiredPos = "noun"
  /\ Len(results) > 0
  /\ mapWordNetPosToStandard(headOfSorted(results, desiredPos)[1].pos) # "noun"

(* C30: pickBestSense returns what it returns without the noun
   override, and the override is entered only when the list it searches
   has no noun sense. *)
NounOverrideChangesNothing ==
  (probe.fn = "pickBestSense" /\ probe.result # <<>>) =>
    /\ probe.result[1] =
         headOfSorted(probe.args.results, probe.args.desiredPos)
    /\ overrideEntered(probe.args.results, probe.args.desiredPos) =>
         \A i \in DOMAIN candidateSenses(probe.args.results, "noun") :
           mapWordNetPosToStandard(
             candidateSenses(probe.args.results, "noun")[i].pos) # "noun"

(* pickBestSense has returned from a call in which the override was
   entered over several senses of different counts. *)
OverrideEnteredOverVerbs ==
  /\ probe.fn = "pickBestSense"
  /\ probe.result # <<>>
  /\ overrideEntered(probe.args.results, probe.args.desiredPos)
  /\ Len(probe.args.results) = 3
  /\ probe.args.results[1].freqCnt # probe.args.results[3].freqCnt
  /\ probe.result[1] # <<probe.args.results[3]>>

====
